---- MODULE Spec2Model ----
(***************************************************************************)
(* Keyframe timeline of Nahara-OSS/keyframe: BasicTimeline / BasicKeyframe *)
(* with the easing evaluator and the scalar interpolator it composes in    *)
(* get().                                                                  *)
(*                                                                         *)
(* Keyframes are heap objects with identity: `heap` is the sequence of all *)
(* BasicKeyframe objects ever constructed (object id = index), and a       *)
(* timeline's `keyframes` array is a sequence of object ids.  A keyframe   *)
(* that was spliced out of the array stays on the heap: the caller still   *)
(* holds the reference and can assign its time or pass it to remove().     *)
(*                                                                         *)
(* Numbers: keyframe times are small naturals; values and progress are     *)
(* exact rationals <<num, den>> in lowest terms (the code computes them in *)
(* IEEE doubles; the rounding of doubles is not modelled).                 *)
(***************************************************************************)
EXTENDS Integers, Sequences, FiniteSets, TLC

\* ---------------------------------------------------------------- bounds
\* Number of BasicKeyframe objects the callers may construct (Spec).
MaxKf == 3
\* The same, where the callers vary values and easings (SpecValue).
MaxKfValue == 2
\* The same, where the callers pass easings of every kind (SpecEasing).
MaxKfEasing == 2
\* The same, where the callers vary values on arrays of three (SpecBlend).
MaxKfBlend == 3
\* The same, where the callers serialize and load (SpecSerial); the number of
\* BasicKeyframe objects that the callers and loadFromSerializable() construct
\* together; and the largest time there.
MaxKfSerial == 3
MaxHeapSerial == 6
MaxTimeSerial == 1
\* The same, where the values are objects (SpecAlias), and the number of
\* objects allocated for values.
MaxKfAlias == 1
MaxHeapAlias == 2
MaxObjs == 5
\* The same, where the callers pass and change flags (SpecFlags), with the
\* number of objects that the callers and loadFromSerializable() construct.
MaxKfFlags == 2
MaxHeapFlags == 3
\* The longest vector that the callers of vectorInterpolator pass, and the
\* number of arrays there are then (SpecVector).
MaxVecLen == 2
MaxObjsVector == 3
\* The callers of the easing functions (SpecCurve) pass the times k/TimeGrid
\* from -1 to 2, step easings of at most MaxSteps steps, nested at most
\* MaxNest deep.
TimeGrid == 12
MaxSteps == 3
MaxNest == 2
\* The same, for arrays long enough that the binary search takes its first
\* step away from the end of the array (SpecLong).
\* The legacy Timeline: the longest array, the most keyframe objects.
MaxKfLegacy == 2
MaxHeapLegacy == 3
\* SpecBracket: the longest array and the latest time.
MaxKfBracket == 3
MaxTimeBracket == 4
\* SpecPair: the most keyframes ever constructed by the two timelines.
MaxHeapPair == 3
\* SpecPower: the highest degree of a power easing.
MaxDegree == 3
MaxKfLong == 4
\* Keyframe times and query times are drawn from 0..MaxTime.
MaxTime == 2

\* The one timeline of the specifications below.
Timelines == {"A"}

\* ------------------------------------------------------------- rationals
RECURSIVE Gcd(_, _)
Gcd(a, b) == IF b = 0 THEN a ELSE Gcd(b, a % b)

Abs(x) == IF x < 0 THEN -x ELSE x

\* The number n/d (d # 0) in lowest terms with a positive denominator.
Rat(n, d) ==
    LET g == Gcd(Abs(n), Abs(d))
        s == IF d < 0 THEN -1 ELSE 1
    IN  <<(s * n) \div g, (s * d) \div g>>

Num(n) == <<n, 1>>
RAdd(a, b) == Rat(a[1] * b[2] + b[1] * a[2], a[2] * b[2])
RSub(a, b) == Rat(a[1] * b[2] - b[1] * a[2], a[2] * b[2])
RMul(a, b) == Rat(a[1] * b[1], a[2] * b[2])
RDiv(a, b) == Rat(a[1] * b[2], a[2] * b[1])
RLess(a, b) == a[1] * b[2] < b[1] * a[2]
RMin(a, b) == IF RLess(b, a) THEN b ELSE a
RMax(a, b) == IF RLess(a, b) THEN b ELSE a

\* ------------------------------------------------------------ values of T
\* A value of type T is a number (a rational, a pair) or an object (a vector
\* or a struct of numbers).  An object is a reference <<n>> to the n-th entry
\* of `objs`, which holds its content; two references to one entry are one
\* object, so a change made through one is seen through the other.
Ref(n) == <<n>>
IsRef(v) == Len(v) = 1
Deref(o, v) == IF IsRef(v) THEN o[v[1]] ELSE v

\* structuredClone(v) of a value of T: a number is itself, an object is copied
\* into a new object.
structuredClone(o, v) ==
    IF IsRef(v) THEN [objs |-> Append(o, o[v[1]]), value |-> Ref(Len(o) + 1)]
    ELSE [objs |-> o, value |-> v]

\* ------------------------------------------------------ inputs of callers
\* The `easing` argument left out (undefined).
NoEasing == "undefined"

\* What the callers of a run pass: `values` to set()/add() (T = number),
\* `easings` as the easing argument, times from 0..maxTime, and at most maxKf
\* keyframes constructed.
\* Spec: the callers exercise the ordering of the array (one value, easing
\* always derived).
OrderInputs ==
    [values |-> {Num(1)}, easings |-> {NoEasing}, maxKf |-> MaxKf, maxTime |-> MaxTime]
\* SpecValue: the callers exercise values and easings, too.
ValueInputs ==
    [values |-> {Num(1), Num(3)}, easings |-> {NoEasing, "hold"},
     maxKf |-> MaxKfValue, maxTime |-> MaxTime]
\* SpecEasing: the callers also pass easing names that are not predefined.
EasingInputs ==
    [values |-> {Num(1), Num(3)}, easings |-> {NoEasing, "bogus", "constructor"},
     maxKf |-> MaxKfEasing, maxTime |-> MaxTime]
\* SpecBlend: as Spec, with two values to blend.
BlendInputs ==
    [values |-> {Num(1), Num(3)}, easings |-> {NoEasing},
     maxKf |-> MaxKfBlend, maxTime |-> MaxTime]
\* SpecSerial: the callers build a timeline, serialize it and load it.
SerialInputs ==
    [values |-> {Num(1)}, easings |-> {NoEasing},
     maxKf |-> MaxKfSerial, maxTime |-> MaxTimeSerial,
     maxHeap |-> MaxHeapSerial, maxObjs |-> 0]
\* SpecAlias: T is an object type. The callers pass their object 1 as the
\* value, and write `contents` into the objects of a serializable they hold.
AliasInputs ==
    [values |-> {Ref(1)}, easings |-> {NoEasing},
     maxKf |-> MaxKfAlias, maxTime |-> MaxTimeSerial,
     maxHeap |-> MaxHeapAlias, maxObjs |-> MaxObjs, contents |-> {Num(5)}]
\* SpecFlags: the callers pass flags to add(), add and remove flags, read
\* them and write into the array they were given.
FlagInputs ==
    [values |-> {Num(1)}, easings |-> {NoEasing},
     maxKf |-> MaxKfFlags, maxTime |-> MaxTimeSerial,
     maxHeap |-> MaxHeapFlags, maxObjs |-> 0,
     flagLists |-> {<<>>, <<"locked">>, <<"locked", "locked">>}]
\* SpecVector: the callers hold two vectors (objects 1 and 2) and pass them
\* to vectorInterpolator with a progress below, in and above [0, 1].
VectorInputs ==
    [values |-> {Ref(1), Ref(2)}, easings |-> {NoEasing}, maxKf |-> 0, maxTime |-> 0,
     maxObjs |-> MaxObjsVector, shape |-> "vector",
     progress |-> {Num(-1), Num(0), Rat(1, 2), Num(1), Num(2)}]
\* The vectors of at most MaxVecLen components.
Vectors == UNION {[1 .. n -> {Num(0), Num(2)}] : n \in 0 .. MaxVecLen}
\* SpecComponents: the callers hold two vectors and pass them to
\* vectorInterpolator, or two records and pass them to structInterpolator.
StructInputs ==
    [values |-> {Ref(1), Ref(2)}, easings |-> {NoEasing}, maxKf |-> 0, maxTime |-> 0,
     maxObjs |-> MaxObjsVector, shape |-> "struct",
     progress |-> {Num(-1), Num(0), Rat(1, 2), Num(1), Num(2)}]
\* The records with the numeric fields x and y.
Structs == [{"x", "y"} -> {Num(0), Num(2)}]
\* Easing descriptors (the type Easing): a name, a step descriptor whose
\* forEachStep is a descriptor or left undefined, and a descriptor of a type
\* the evaluator does not know.
NameEasing(name) == [type |-> "name", name |-> name]
UndefinedEasing == [type |-> "undefined"]
StepEasing(steps, forEachStep) ==
    [type |-> "step", steps |-> steps, forEachStep |-> forEachStep]
PowerEasing == [type |-> "power"]
\* The descriptors nested at most depth deep.
RECURSIVE EasingsOfDepth(_)
EasingsOfDepth(depth) ==
    IF depth = 0 THEN {NameEasing("hold"), NameEasing("linear"), NameEasing("bogus"), PowerEasing}
    ELSE EasingsOfDepth(depth - 1) \cup
         {StepEasing(n, sub) : n \in 1 .. MaxSteps,
                              sub \in {UndefinedEasing} \cup EasingsOfDepth(depth - 1)}
\* SpecCurve: the callers evaluate easings on their own.
CurveInputs ==
    [values |-> {Num(1)}, easings |-> EasingsOfDepth(MaxNest), maxKf |-> 0, maxTime |-> 0,
     names |-> {"hold", "linear"},
     times |-> {Rat(k, TimeGrid) : k \in -TimeGrid .. 2 * TimeGrid}]
\* A cubic-bezier descriptor; a control point is <<x, y>>.
CubicBezierEasing(cp1, cp2) == [type |-> "cubic-bezier", cp1 |-> cp1, cp2 |-> cp2]
\* SpecBezier: the callers evaluate cubic-bezier easings, with control points
\* whose X is below, in and above [0, 1] and whose Y is free.
BezierInputs ==
    [values |-> {Num(1)}, easings |-> {NoEasing}, maxKf |-> 0, maxTime |-> 0,
     times |-> {Num(0), Rat(1, 4), Rat(1, 3), Rat(1, 2), Rat(3, 4), Num(1), Rat(3, 2)},
     cp1 |-> {<<x, Rat(-1, 2)>> : x \in {Num(-1), Num(0), Rat(1, 3), Num(1), Num(2)}},
     cp2 |-> {<<x, Num(2)>> : x \in {Num(-1), Num(0), Rat(2, 3), Num(1), Num(2)}}]
\* SpecDiagonal: as SpecBezier, with control points on the diagonal y = x,
\* within and outside [0, 1].
DiagonalInputs ==
    [values |-> {Num(1)}, easings |-> {NoEasing}, maxKf |-> 0, maxTime |-> 0,
     times |-> {Num(0), Rat(1, 4), Rat(1, 2), Rat(3, 4), Num(1), Rat(3, 2)},
     cp1 |-> {<<x, x>> : x \in {Num(-1), Num(0), Rat(1, 3), Num(1), Num(2)}},
     cp2 |-> {<<x, x>> : x \in {Num(-1), Num(0), Rat(2, 3), Num(1), Num(2)}}]
\* SpecLegacy: the callers of the legacy Timeline, who also make keyframe
\* objects of their own and pass them to setTime and delete.
LegacyInputs ==
    [values |-> {Num(1)}, easings |-> {NoEasing}, maxKf |-> MaxKfLegacy, maxTime |-> MaxTime,
     maxHeap |-> MaxHeapLegacy]
\* SpecBracket: as Spec, over more times, so that get() finds times strictly
\* between keyframes at unequal distances.
BracketInputs ==
    [values |-> {Num(1)}, easings |-> {NoEasing}, maxKf |-> MaxKfBracket,
     maxTime |-> MaxTimeBracket]
\* SpecPair: the callers hold two timelines, take the serializable of the
\* first, load it into the second and go on calling both.
PairInputs ==
    [values |-> {Num(1)}, easings |-> {NoEasing}, maxKf |-> MaxHeapPair,
     maxTime |-> MaxTimeSerial, maxHeap |-> MaxHeapPair, maxObjs |-> 0]
\* The two timelines of SpecPair.
PairTimelines == {"A", "B"}
\* SpecPower: the callers evaluate the legacy power easing between two
\* numbers with the scalar linear interpolator.
PowerInputs ==
    [values |-> {Num(0), Num(2), Num(4)}, easings |-> {NoEasing}, maxKf |-> 0, maxTime |-> 0,
     degrees |-> 1 .. MaxDegree, modes |-> {"in", "out", "in-out"},
     times |-> {Num(0), Rat(1, 4), Rat(1, 2), Rat(3, 4), Num(1)}]
\* SpecLong: as Spec, on longer arrays.
LongInputs ==
    [values |-> {Num(1)}, easings |-> {NoEasing}, maxKf |-> MaxKfLong, maxTime |-> MaxTime]

\* -------------------------------------------------------------- the state
VARIABLES
    initialValue,   \* BasicTimeline.initialValue, per timeline
    keyframes,      \* BasicTimeline.keyframes (array of object ids), per timeline
    heap,           \* every BasicKeyframe constructed so far: timeline, #time, value, easing, #flags
    last,           \* the call made last: operation, keyframe, result
    inputs,         \* what the callers of this run pass (fixed by Init)
    snap,           \* the serializable object the caller holds (SerializableTimeline)
    objs,           \* the contents of the objects that values of type T refer to
    eval            \* the call of an easing or interpolator function: arguments, progress, result

vars == <<initialValue, keyframes, heap, last, inputs, snap, objs, eval>>

\* ------------------------------------------------------- array primitives
\* JS arrays are 0-based; sequences are 1-based.
At(arr, i) == arr[i + 1]

Clamp(x, lo, hi) == IF x < lo THEN lo ELSE IF x > hi THEN hi ELSE x

\* Array.prototype.splice(start, deleteCount, ...items): the array after the call.
splice(arr, start, deleteCount, items) ==
    LET len == Len(arr)
        s == IF start < 0 THEN Clamp(len + start, 0, len) ELSE Clamp(start, 0, len)
        d == Clamp(deleteCount, 0, len - s)
    IN  SubSeq(arr, 1, s) \o items \o SubSeq(arr, s + d + 1, len)

\* The elements splice(start, deleteCount) removes and returns.
spliced(arr, start, deleteCount) ==
    LET len == Len(arr)
        s == IF start < 0 THEN Clamp(len + start, 0, len) ELSE Clamp(start, 0, len)
        d == Clamp(deleteCount, 0, len - s)
    IN  SubSeq(arr, s + 1, s + d)

\* Array.prototype.slice(from, to) for non-negative indices.
slice(arr, from, to) ==
    LET len == Len(arr)
        f == Clamp(from, 0, len)
        t == Clamp(to, 0, len)
    IN  SubSeq(arr, f + 1, t)

Elems(arr) == {arr[i] : i \in 1 .. Len(arr)}
Count(arr, x) == Cardinality({i \in 1 .. Len(arr) : arr[i] = x})
\* arr without every occurrence of x
RECURSIVE Without(_, _)
Without(arr, x) ==
    IF arr = <<>> THEN <<>>
    ELSE IF Head(arr) = x THEN Without(Tail(arr), x)
    ELSE <<Head(arr)>> \o Without(Tail(arr), x)

arrTimes(h, arr) == [i \in 1 .. Len(arr) |-> h[arr[i]].time]

\* ------------------------------------------------ BasicTimeline: the search
\* The while loop of searchKeyframeIndex, from (start, end).
RECURSIVE searchLoop(_, _, _, _, _)
searchLoop(h, arr, time, start, end) ==
    IF start <= end
    THEN LET mid == (start + end) \div 2
             midTime == h[At(arr, mid)].time
         IN  IF midTime < time THEN searchLoop(h, arr, time, mid + 1, end)
             ELSE IF midTime > time THEN searchLoop(h, arr, time, start, mid - 1)
             ELSE mid
    ELSE -1 - start

\* searchKeyframeIndex() that returns -(insertion index) for a time it does
\* not find.
searchKeyframeIndex_noOffset(h, arr, time) ==
    IF Len(arr) = 0 THEN -1
    ELSE LET found == searchLoop(h, arr, time, 0, Len(arr) - 1)
         IN  IF found < 0 THEN found + 1 ELSE found

searchKeyframeIndex(h, arr, time) ==
    IF Len(arr) = 0 THEN -1 ELSE searchLoop(h, arr, time, 0, Len(arr) - 1)

\* `search >= 0 ? search : -search - 1`
insertIndex(search) == IF search >= 0 THEN search ELSE -search - 1

\* ------------------------------------------------------------ the easing
\* predefinedEasings: "hold" and "linear" (the sine and circular curves are
\* irrational-valued and are not among the easings the callers here pass).
predefinedEasings(name, x) ==
    IF name = "hold" THEN Num(0)
    ELSE RMax(RMin(x, Num(1)), Num(0))

IsPredefined(name) == name \in {"hold", "linear"}

\* Names that `predefinedEasings[easing]` finds although the table does not
\* define them: the table is an object literal, so the lookup also finds the
\* members of Object.prototype.  "constructor" is the function Object, and
\* Object(x) is a Number object, which computes as x in the interpolator.
IsInherited(name) == name \in {"constructor"}

\* easingTimeToProgress for an easing given by name: the progress, or a throw
\* for a name the lookup in the table does not find.
easingTimeToProgress(easing, time) ==
    IF IsPredefined(easing)
    THEN [threw |-> FALSE, progress |-> predefinedEasings(easing, time)]
    ELSE IF IsInherited(easing)
    THEN [threw |-> FALSE, progress |-> time]
    ELSE [threw |-> TRUE, progress |-> Num(0)]

\* predefinedEasingFunctions of the legacy implementation: "hold" and
\* "linear", which is Math.max(Math.min(x)), the maximum of the minimum of
\* the one number x.
predefinedEasingFunctions(name, x) ==
    IF name = "hold" THEN Num(0)
    ELSE RMax(RMin(x, x), RMin(x, x))

\* Math.floor of a rational number.
Floor(x) == x[1] \div x[2]

RECURSIVE anyEasingTimeToProgress(_, _)
RECURSIVE stepEasingTimeToProgress(_, _, _)

\* stepEasingTimeToProgress that returns the level at the end of the step.
stepEasingTimeToProgress_endLevel(time, steps, forEachStep) ==
    LET currentStep == Floor(RMul(time, Num(steps)))
        currentStepValue == Rat(currentStep, steps)
        nextStepValue == Rat(currentStep + 1, steps)
    IN  IF forEachStep.type = "undefined"
        THEN [threw |-> FALSE, progress |-> nextStepValue]
        ELSE LET timeInStep == RDiv(RSub(time, currentStepValue),
                                    RSub(nextStepValue, currentStepValue))
                 inStep == anyEasingTimeToProgress(forEachStep, timeInStep)
             IN  IF inStep.threw THEN inStep
                 ELSE [threw |-> FALSE,
                       progress |-> RAdd(currentStepValue,
                           RMul(inStep.progress, RSub(nextStepValue, currentStepValue)))]

\* stepEasingTimeToProgress that evaluates forEachStep on the time of the
\* whole easing.
stepEasingTimeToProgress_wholeTime(time, steps, forEachStep) ==
    LET currentStep == Floor(RMul(time, Num(steps)))
        currentStepValue == Rat(currentStep, steps)
        nextStepValue == Rat(currentStep + 1, steps)
    IN  IF forEachStep.type = "undefined"
        THEN [threw |-> FALSE, progress |-> currentStepValue]
        ELSE LET inStep == anyEasingTimeToProgress(forEachStep, time)
             IN  IF inStep.threw THEN inStep
                 ELSE [threw |-> FALSE,
                       progress |-> RAdd(currentStepValue,
                           RMul(inStep.progress, RSub(nextStepValue, currentStepValue)))]

\* stepEasingTimeToProgress(time, steps, forEachStep?)
stepEasingTimeToProgress(time, steps, forEachStep) ==
    LET currentStep == Floor(RMul(time, Num(steps)))
        currentStepValue == Rat(currentStep, steps)
        nextStepValue == Rat(currentStep + 1, steps)
    IN  IF forEachStep.type = "undefined"
        THEN [threw |-> FALSE, progress |-> currentStepValue]
        ELSE LET timeInStep == RDiv(RSub(time, currentStepValue),
                                    RSub(nextStepValue, currentStepValue))
                 inStep == anyEasingTimeToProgress(forEachStep, timeInStep)
             IN  IF inStep.threw THEN inStep
                 ELSE [threw |-> FALSE,
                       progress |-> RAdd(currentStepValue,
                           RMul(inStep.progress, RSub(nextStepValue, currentStepValue)))]

\* easingTimeToProgress for an easing given by a descriptor: a name goes to
\* the table, a step descriptor to stepEasingTimeToProgress, and a descriptor
\* of any other type throws.  (Cubic-bezier descriptors are evaluated by
\* cubicBezierEasingTimeToProgress, apart from these.)
anyEasingTimeToProgress(easing, time) ==
    IF easing.type = "name" THEN easingTimeToProgress(easing.name, time)
    ELSE IF easing.type = "step"
    THEN stepEasingTimeToProgress(time, easing.steps, easing.forEachStep)
    ELSE [threw |-> TRUE, progress |-> Num(0)]

\* scalarInterpolator: from * (1 - p) + to * p
scalarInterpolator(from, to, p) ==
    RAdd(RMul(from, RSub(Num(1), p)), RMul(to, p))

\* vectorInterpolator that returns the second vector for vectors of
\* different lengths.
vectorInterpolator_returnsTo(o, from, to, p) ==
    IF Len(Deref(o, from)) # Len(Deref(o, to)) THEN [objs |-> o, ret |-> to]
    ELSE IF ~RLess(Num(0), p) THEN [objs |-> o, ret |-> from]
    ELSE IF ~RLess(p, Num(1)) THEN [objs |-> o, ret |-> to]
    ELSE [objs |-> Append(o, [i \in 1 .. Len(Deref(o, from)) |->
                    scalarInterpolator(Deref(o, from)[i], Deref(o, to)[i], p)]),
          ret |-> Ref(Len(o) + 1)]

\* vectorInterpolator(from, to, p): from and to are references to arrays; the
\* result is from, to, or the new array that from.map() makes.
vectorInterpolator(o, from, to, p) ==
    IF Len(Deref(o, from)) # Len(Deref(o, to)) THEN [objs |-> o, ret |-> from]
    ELSE IF ~RLess(Num(0), p) THEN [objs |-> o, ret |-> from]
    ELSE IF ~RLess(p, Num(1)) THEN [objs |-> o, ret |-> to]
    ELSE [objs |-> Append(o, [i \in 1 .. Len(Deref(o, from)) |->
                    scalarInterpolator(Deref(o, from)[i], Deref(o, to)[i], p)]),
          ret |-> Ref(Len(o) + 1)]

\* structInterpolator(from, to, p): from and to are references to records;
\* the result is from, to, or the clone of from with every field blended.
structInterpolator(o, from, to, p) ==
    IF ~RLess(Num(0), p) THEN [objs |-> o, ret |-> from]
    ELSE IF ~RLess(p, Num(1)) THEN [objs |-> o, ret |-> to]
    ELSE [objs |-> Append(o, [key \in DOMAIN Deref(o, from) |->
                    scalarInterpolator(Deref(o, from)[key], Deref(o, to)[key], p)]),
          ret |-> Ref(Len(o) + 1)]

\* ------------------------------------------------- the cubic-bezier easing
\* Whole numbers of any size, for the exact value of the bezier polynomial:
\* a natural number is the sequence of its digits to the base Base, the
\* lowest first.
Base == 4096

RECURSIVE BFromInt(_)
BFromInt(n) == IF n = 0 THEN <<>> ELSE <<n % Base>> \o BFromInt(n \div Base)

RECURSIVE BAddC(_, _, _)
BAddC(a, b, c) ==
    IF a = <<>> /\ b = <<>> THEN BFromInt(c)
    ELSE LET x == (IF a = <<>> THEN 0 ELSE Head(a)) + (IF b = <<>> THEN 0 ELSE Head(b)) + c
         IN  <<x % Base>> \o BAddC(IF a = <<>> THEN <<>> ELSE Tail(a),
                                   IF b = <<>> THEN <<>> ELSE Tail(b), x \div Base)

BAdd(a, b) == BAddC(a, b, 0)

RECURSIVE BMulDigit(_, _, _)
BMulDigit(a, d, c) ==
    IF a = <<>> THEN BFromInt(c)
    ELSE LET x == Head(a) * d + c
         IN  <<x % Base>> \o BMulDigit(Tail(a), d, x \div Base)

RECURSIVE BMul(_, _)
BMul(a, b) ==
    IF a = <<>> THEN <<>>
    ELSE BAdd(BMulDigit(b, Head(a), 0), <<0>> \o BMul(Tail(a), b))

\* -1, 0 or 1 as a is below, equal to or above b
RECURSIVE BCmp(_, _)
BCmp(a, b) ==
    IF a = <<>> /\ b = <<>> THEN 0
    ELSE LET ha == IF a = <<>> THEN 0 ELSE Head(a)
             hb == IF b = <<>> THEN 0 ELSE Head(b)
             r == BCmp(IF a = <<>> THEN <<>> ELSE Tail(a), IF b = <<>> THEN <<>> ELSE Tail(b))
         IN  IF r # 0 THEN r ELSE IF ha < hb THEN -1 ELSE IF ha > hb THEN 1 ELSE 0

\* An integer as the difference p - n of two natural numbers.
SInt(i) == IF i >= 0 THEN [p |-> BFromInt(i), n |-> <<>>] ELSE [p |-> <<>>, n |-> BFromInt(-i)]
SAdd(x, y) == [p |-> BAdd(x.p, y.p), n |-> BAdd(x.n, y.n)]
SMul(x, y) == [p |-> BAdd(BMul(x.p, y.p), BMul(x.n, y.n)),
               n |-> BAdd(BMul(x.p, y.n), BMul(x.n, y.p))]
SCmp(x, y) == BCmp(BAdd(x.p, y.n), BAdd(y.p, x.n))

\* Sums, differences and halves of dyadic numbers (rationals whose
\* denominator is a power of two), over the larger denominator.
DAdd(a, b) ==
    LET d == IF a[2] > b[2] THEN a[2] ELSE b[2]
    IN  Rat(a[1] * (d \div a[2]) + b[1] * (d \div b[2]), d)
DSub(a, b) ==
    LET d == IF a[2] > b[2] THEN a[2] ELSE b[2]
    IN  Rat(a[1] * (d \div a[2]) - b[1] * (d \div b[2]), d)
DHalf(a) == Rat(a[1], 2 * a[2])

\* parametricCubicBezier1D(cp1, cp2, p) for rational cp1, cp2 and p:
\* 3 * invP**2 * p * cp1 + 3 * invP * p**2 * cp2 + p**3, as the exact
\* fraction num / den with den = p[2]^3 * cp1[2] * cp2[2] > 0.
parametricCubicBezier1D(cp1, cp2, p) ==
    LET m == SInt(p[1])
        invP == SInt(p[2] - p[1])
        c1d == SInt(cp1[2])
        c2d == SInt(cp2[2])
        d == SInt(p[2])
    IN  [num |-> SAdd(SAdd(SMul(SMul(SMul(SInt(3), SMul(invP, invP)), m),
                                SMul(SInt(cp1[1]), c2d)),
                           SMul(SMul(SMul(SInt(3), invP), SMul(m, m)),
                                SMul(SInt(cp2[1]), c1d))),
                      SMul(SMul(m, SMul(m, m)), SMul(c1d, c2d))),
         den |-> SMul(SMul(d, SMul(d, d)), SMul(c1d, c2d))]

\* -1, 0 or 1 as the rational time is below, equal to or above the fraction xr
CompareToFraction(time, xr) ==
    SCmp(SMul(SInt(time[1]), xr.den), SMul(SInt(time[2]), xr.num))

\* A tolerance of 1e-3.
BisectTolerance_coarse == Rat(1, 1000)

\* A tolerance ten times finer.
BisectTolerance_finer == Rat(1, 10000000)

\* The tolerance of the bisection, 1e-6.
BisectTolerance == Rat(1, 1000000)

\* No result yet.
NoProgress == [num |-> SInt(0), den |-> SInt(1)]

\* The locals of a bisection at the entry of its loop.
BezierLoopEntry(op, time, cp1, cp2, cp1x, cp2x) ==
    [op |-> op, time |-> time, cp1 |-> cp1, cp2 |-> cp2, cp1x |-> cp1x, cp2x |-> cp2x,
     start |-> Num(0), end |-> Num(1), iterations |-> 0, hit |-> FALSE,
     done |-> FALSE, threw |-> FALSE, progress |-> NoProgress, interpolatorCalls |-> 0]

\* One evaluation of `while ((end - start) > 1e-6) { ... }`: an iteration of
\* the body, or the return after the loop.  applyCubicBezier passes the
\* result to the interpolator as it returns.
bisect(st) ==
    LET returns(u) == [st EXCEPT !.done = TRUE,
                           !.progress = parametricCubicBezier1D(st.cp1[2], st.cp2[2], u),
                           !.interpolatorCalls = IF st.op = "applyCubicBezier" THEN 1 ELSE 0]
    IN  IF RLess(BisectTolerance, DSub(st.end, st.start))
        THEN LET mid == DHalf(DAdd(st.start, st.end))
                 xr == parametricCubicBezier1D(st.cp1x, st.cp2x, mid)
                 c == CompareToFraction(st.time, xr)
             IN  IF c > 0 THEN [st EXCEPT !.start = mid, !.iterations = @ + 1]
                 ELSE IF c < 0 THEN [st EXCEPT !.end = mid, !.iterations = @ + 1]
                 ELSE [returns(mid) EXCEPT !.iterations = @ + 1, !.hit = TRUE]
        ELSE returns(DHalf(DAdd(st.start, st.end)))

\* The loop, run until it returns.
RECURSIVE bisection(_)
bisection(st) == IF st.done THEN st ELSE bisection(bisect(st))

\* The X of a control point as it is: no clamping.
clampX_none(x) == x

\* if (x < 0) x = 0; if (x > 1) x = 1;
clampX(x) == IF RLess(x, Num(0)) THEN Num(0) ELSE IF RLess(Num(1), x) THEN Num(1) ELSE x

\* cubicBezierEasingTimeToProgress(time, cp1, cp2), at the entry of the loop
cubicBezierEasingEntry(time, cp1, cp2) ==
    BezierLoopEntry("cubicBezierEasingTimeToProgress", time, cp1, cp2,
                    clampX(cp1[1]), clampX(cp2[1]))

\* cubicBezierEasingTimeToProgress(time, cp1, cp2)
cubicBezierEasingTimeToProgress(time, cp1, cp2) ==
    bisection(cubicBezierEasingEntry(time, cp1, cp2))

\* applyCubicBezier that clamps the X of the control points.
applyCubicBezierEntry_clamps(cp1, cp2, progress) ==
    BezierLoopEntry("applyCubicBezier", progress, cp1, cp2, clampX(cp1[1]), clampX(cp2[1]))

\* applyCubicBezier(from, to, interpolator, cp1, cp2, progress) of the legacy
\* implementation, at the entry of the loop or as it throws.
applyCubicBezierEntry(cp1, cp2, progress) ==
    IF \/ RLess(cp1[1], Num(0)) \/ RLess(Num(1), cp1[1])
       \/ RLess(cp2[1], Num(0)) \/ RLess(Num(1), cp2[1])
    THEN [BezierLoopEntry("applyCubicBezier", progress, cp1, cp2, cp1[1], cp2[1])
             EXCEPT !.done = TRUE, !.threw = TRUE]
    ELSE BezierLoopEntry("applyCubicBezier", progress, cp1, cp2, cp1[1], cp2[1])

\* applyEasing(from, to, interpolator, easing, progress) of the legacy
\* implementation, for a cubic-bezier descriptor (the callers here pass no
\* other).
applyEasing(easing, progress) ==
    CASE easing.type = "cubic-bezier" -> applyCubicBezierEntry(easing.cp1, easing.cp2, progress)

\* ------------------------------------------- BasicKeyframe / BasicTimeline
\* new BasicKeyframe(timeline, time, value, easing, flags)
BasicKeyframe(tl, time, value, easing, flags) ==
    [timeline |-> tl, time |-> time, value |-> value, easing |-> easing, flags |-> flags]

\* The outcome of a call: the heap and the arrays after it, and the keyframe
\* it returns (0: none).
Outcome(h, kfs, ret) == [heap |-> h, keyframes |-> kfs, ret |-> ret]

\* add() that replaces the keyframe found at the time instead of adding to it.
add_replacing(h, kfs, tl, time, value, easing) ==
    LET arr == kfs[tl]
        search == searchKeyframeIndex(h, arr, time)
        insertAt == insertIndex(search)
        useEasing == IF easing # NoEasing THEN easing
                     ELSE IF insertAt - 1 >= 0 THEN h[At(arr, insertAt - 1)].easing
                     ELSE "linear"
        kf == Len(h) + 1
    IN  Outcome(Append(h, BasicKeyframe(tl, time, value, useEasing, <<>>)),
                [kfs EXCEPT ![tl] = splice(arr, insertAt, IF search >= 0 THEN 1 ELSE 0, <<kf>>)],
                kf)

\* add() that derives the easing from the keyframe after the insertion
\* position where there is one.
add_easingOfNext(h, kfs, tl, time, value, easing) ==
    LET arr == kfs[tl]
        search == searchKeyframeIndex(h, arr, time)
        insertAt == insertIndex(search)
        useEasing == IF easing # NoEasing THEN easing
                     ELSE IF insertAt < Len(arr) THEN h[At(arr, insertAt)].easing
                     ELSE IF insertAt - 1 >= 0 THEN h[At(arr, insertAt - 1)].easing
                     ELSE "linear"
        kf == Len(h) + 1
    IN  Outcome(Append(h, BasicKeyframe(tl, time, value, useEasing, <<>>)),
                [kfs EXCEPT ![tl] = splice(arr, insertAt, 0, <<kf>>)],
                kf)

\* BasicTimeline.add(time, value, easing?) (flags left out)
add(h, kfs, tl, time, value, easing) ==
    LET arr == kfs[tl]
        search == searchKeyframeIndex(h, arr, time)
        insertAt == insertIndex(search)
        useEasing == IF easing # NoEasing THEN easing
                     ELSE IF insertAt - 1 >= 0 THEN h[At(arr, insertAt - 1)].easing
                     ELSE "linear"
        kf == Len(h) + 1
    IN  Outcome(Append(h, BasicKeyframe(tl, time, value, useEasing, <<>>)),
                [kfs EXCEPT ![tl] = splice(arr, insertAt, 0, <<kf>>)],
                kf)

\* BasicTimeline.set(time, value, easing?)
set(h, kfs, tl, time, value, easing) ==
    LET arr == kfs[tl]
        idx == searchKeyframeIndex(h, arr, time)
    IN  IF idx >= 0
        THEN LET kf == At(arr, idx)
             IN  Outcome([h EXCEPT ![kf].value = value,
                                   ![kf].easing = IF easing # NoEasing THEN easing ELSE @],
                         kfs, kf)
        ELSE add(h, kfs, tl, time, value, easing)

\* BasicTimeline.remove(...keyframes): the array after the loop over ks
RECURSIVE remove(_, _, _)
remove(h, arr, ks) ==
    IF ks = <<>> THEN arr
    ELSE LET search == searchKeyframeIndex(h, arr, h[Head(ks)].time)
         IN  IF search < 0 THEN remove(h, arr, Tail(ks))
             ELSE remove(h, splice(arr, search, 1, <<>>), Tail(ks))

\* removeBetween() that also removes the keyframe found at timeEnd.
removeBetween_inclusive(h, arr, timeStart, timeEnd) ==
    LET fromIdx == insertIndex(searchKeyframeIndex(h, arr, timeStart))
        searchEnd == searchKeyframeIndex(h, arr, timeEnd)
        toIdx == IF searchEnd >= 0 THEN searchEnd + 1 ELSE -searchEnd - 1
    IN  [keyframes |-> splice(arr, fromIdx, toIdx - fromIdx, <<>>),
         removed |-> spliced(arr, fromIdx, toIdx - fromIdx)]

\* BasicTimeline.removeBetween(timeStart, timeEnd): [array after, keyframes returned]
removeBetween(h, arr, timeStart, timeEnd) ==
    LET fromIdx == insertIndex(searchKeyframeIndex(h, arr, timeStart))
        toIdx == insertIndex(searchKeyframeIndex(h, arr, timeEnd))
    IN  [keyframes |-> splice(arr, fromIdx, toIdx - fromIdx, <<>>),
         removed |-> spliced(arr, fromIdx, toIdx - fromIdx)]

\* BasicTimeline.getKeyframeAt(time): the keyframe, or 0 for null
getKeyframeAt(h, arr, time) ==
    LET idx == searchKeyframeIndex(h, arr, time)
    IN  IF idx >= 0 THEN At(arr, idx) ELSE 0

\* getKeyframesBetween() that starts after the keyframe found at timeStart.
getKeyframesBetween_exclusive(h, arr, timeStart, timeEnd) ==
    LET searchStart == searchKeyframeIndex(h, arr, timeStart)
        fromIdx == IF searchStart >= 0 THEN searchStart + 1 ELSE -searchStart - 1
        toIdx == insertIndex(searchKeyframeIndex(h, arr, timeEnd))
    IN  slice(arr, fromIdx, toIdx)

\* BasicTimeline.getKeyframesBetween(timeStart, timeEnd)
getKeyframesBetween(h, arr, timeStart, timeEnd) ==
    LET fromIdx == insertIndex(searchKeyframeIndex(h, arr, timeStart))
        toIdx == insertIndex(searchKeyframeIndex(h, arr, timeEnd))
    IN  slice(arr, fromIdx, toIdx)

\* The time setter without the index shift: the old index is removed as found,
\* also when the insertion in front of it has moved it by one.
setTime_noShift(h, kfs, kf, newTime) ==
    LET tl == h[kf].timeline
        arr == kfs[tl]
        lastIdx == searchKeyframeIndex(h, arr, h[kf].time)
        nextIdx == insertIndex(searchKeyframeIndex(h, arr, newTime))
        h2 == [h EXCEPT ![kf].time = newTime]
    IN  IF newTime = h[kf].time \/ lastIdx < 0 THEN Outcome(h, kfs, kf)
        ELSE IF lastIdx = nextIdx THEN Outcome(h2, kfs, kf)
        ELSE Outcome(h2,
                     [kfs EXCEPT ![tl] = splice(splice(arr, nextIdx, 0, <<kf>>), lastIdx, 1, <<>>)],
                     kf)

\* The time setter that assigns the time and leaves the keyframe where it is.
setTime_noMove(h, kfs, kf, newTime) ==
    LET tl == h[kf].timeline
        lastIdx == searchKeyframeIndex(h, kfs[tl], h[kf].time)
    IN  IF newTime = h[kf].time \/ lastIdx < 0 THEN Outcome(h, kfs, kf)
        ELSE Outcome([h EXCEPT ![kf].time = newTime], kfs, kf)

\* BasicKeyframe `set time(newTime)` on keyframe object kf
setTime(h, kfs, kf, newTime) ==
    LET tl == h[kf].timeline
        arr == kfs[tl]
        lastIdx == searchKeyframeIndex(h, arr, h[kf].time)
        nextIdx == insertIndex(searchKeyframeIndex(h, arr, newTime))
        h2 == [h EXCEPT ![kf].time = newTime]
        inserted == splice(arr, nextIdx, 0, <<kf>>)
    IN  IF newTime = h[kf].time THEN Outcome(h, kfs, kf)
        ELSE IF lastIdx < 0 THEN Outcome(h, kfs, kf)
        ELSE IF lastIdx = nextIdx THEN Outcome(h2, kfs, kf)
        ELSE Outcome(h2,
                     [kfs EXCEPT ![tl] =
                         splice(inserted, IF nextIdx < lastIdx THEN lastIdx + 1 ELSE lastIdx, 1, <<>>)],
                     kf)

\* The keyframes with the contents of their values in place of the references.
Resolved(o, h) == [k \in DOMAIN h |-> [h[k] EXCEPT !.value = Deref(o, @)]]

\* BasicKeyframe.asSerializable of the keyframes of arr in turn (the map in
\* BasicTimeline.asSerializable): the entries and the objects after the clones.
\* An easing is a name here, and structuredClone of a string is the string.
RECURSIVE serializeKeyframes(_, _, _)
serializeKeyframes(h, arr, o) ==
    IF arr = <<>> THEN [objs |-> o, keyframes |-> <<>>]
    ELSE LET kf == h[Head(arr)]
             value == structuredClone(o, kf.value)
             rest == serializeKeyframes(h, Tail(arr), value.objs)
         IN  [objs |-> rest.objs,
              keyframes |-> <<[time |-> kf.time, easing |-> kf.easing,
                               value |-> value.value, flags |-> kf.flags]>>
                            \o rest.keyframes]

\* BasicTimeline `get asSerializable()`
asSerializable(h, arr, init, o) ==
    LET initial == structuredClone(o, init)
        ks == serializeKeyframes(h, arr, initial.objs)
    IN  [objs |-> ks.objs,
         data |-> [initialValue |-> initial.value, keyframes |-> ks.keyframes]]

\* serializable.keyframes.map(s => new BasicKeyframe(this, ...)): the heap and
\* the objects after it, and the keyframes constructed, in the order of entries.
RECURSIVE construct(_, _, _, _)

\* The map that constructs the keyframes for timeline A, whichever timeline
\* loads.
construct_ownerA(h, o, tl, entries) ==
    IF entries = <<>> THEN [heap |-> h, objs |-> o, keyframes |-> <<>>]
    ELSE LET e == Head(entries)
             value == structuredClone(o, e.value)
             h2 == Append(h, BasicKeyframe("A", e.time, value.value, e.easing, e.flags))
             rest == construct(h2, value.objs, tl, Tail(entries))
         IN  [heap |-> rest.heap, objs |-> rest.objs,
              keyframes |-> <<Len(h2)>> \o rest.keyframes]

construct(h, o, tl, entries) ==
    IF entries = <<>> THEN [heap |-> h, objs |-> o, keyframes |-> <<>>]
    ELSE LET e == Head(entries)
             value == structuredClone(o, e.value)
             h2 == Append(h, BasicKeyframe(tl, e.time, value.value, e.easing, e.flags))
             rest == construct(h2, value.objs, tl, Tail(entries))
         IN  [heap |-> rest.heap, objs |-> rest.objs,
              keyframes |-> <<Len(h2)>> \o rest.keyframes]

\* Array.prototype.sort((a, b) => a.time - b.time): stable, ascending by time.
RECURSIVE sortByTime(_, _)
sortByTime(h, arr) ==
    IF arr = <<>> THEN <<>>
    ELSE LET front == sortByTime(h, SubSeq(arr, 1, Len(arr) - 1))
             x == arr[Len(arr)]
             p == Cardinality({i \in 1 .. Len(front) : h[front[i]].time <= h[x].time})
         IN  SubSeq(front, 1, p) \o <<x>> \o SubSeq(front, p + 1, Len(front))

\* loadFromSerializable that keeps the order of the entries.
loadFromSerializable_noSort(h, o, tl, data) ==
    LET made == construct(h, o, tl, data.keyframes)
    IN  [heap |-> made.heap, objs |-> made.objs,
         initialValue |-> data.initialValue,
         keyframes |-> made.keyframes]

\* BasicTimeline.loadFromSerializable(serializable)
loadFromSerializable(h, o, tl, data) ==
    LET made == construct(h, o, tl, data.keyframes)
    IN  [heap |-> made.heap, objs |-> made.objs,
         initialValue |-> data.initialValue,
         keyframes |-> sortByTime(made.heap, made.keyframes)]

\* BasicKeyframe.addFlag(flag)
addFlag(h, kf, flag) ==
    IF flag \in Elems(h[kf].flags) THEN h
    ELSE [h EXCEPT ![kf].flags = Append(@, flag)]

\* BasicKeyframe.removeFlag(flag): indexOf(flag), splice(idx, 1)
removeFlag(h, kf, flag) ==
    IF flag \notin Elems(h[kf].flags) THEN h
    ELSE LET idx == CHOOSE i \in 1 .. Len(h[kf].flags) :
                        /\ h[kf].flags[i] = flag
                        /\ \A j \in 1 .. i - 1 : h[kf].flags[j] # flag
         IN  [h EXCEPT ![kf].flags = splice(@, idx - 1, 1, <<>>)]

\* BasicTimeline.add(time, value, easing?, flags): the constructor pushes
\* every element of flags onto the empty #flags.
addWithFlags(h, kfs, tl, time, value, easing, flags) ==
    LET out == add(h, kfs, tl, time, value, easing)
    IN  [out EXCEPT !.heap[out.ret].flags = <<>> \o flags]

\* What a timeline holds, by content: initialValue and the ordered list of
\* (time, value, easing, flags).
TimelineView(h, arr, init, o) ==
    [initialValue |-> Deref(o, init),
     keyframes |-> [i \in 1 .. Len(arr) |->
          [time |-> h[arr[i]].time, easing |-> h[arr[i]].easing,
           value |-> Deref(o, h[arr[i]].value), flags |-> h[arr[i]].flags]]]

\* What a serializable object holds, by content.
SnapView(o, data) ==
    [initialValue |-> Deref(o, data.initialValue),
     keyframes |-> [i \in 1 .. Len(data.keyframes) |->
          [data.keyframes[i] EXCEPT !.value = Deref(o, @)]]]

\* What a get() call did: the value it returned (or that it threw), and how
\* often it called the easing evaluator and the interpolator.
Got(threw, value, easingCalls, interpolatorCalls) ==
    [threw |-> threw, value |-> value,
     easingCalls |-> easingCalls, interpolatorCalls |-> interpolatorCalls]

\* get() that sends an exact match through the easing and the interpolator
\* (progress 1 of the segment that ends at the keyframe).
get_blendsExact(h, arr, init, time) ==
    LET idx == searchKeyframeIndex(h, arr, time)
        insertAt == -idx - 1
    IN  IF idx >= 0 THEN Got(FALSE, h[At(arr, idx)].value, 1, 1)
        ELSE IF insertAt - 1 < 0 THEN Got(FALSE, init, 0, 0)
        ELSE IF insertAt >= Len(arr) THEN Got(FALSE, h[At(arr, insertAt - 1)].value, 0, 0)
        ELSE LET before == h[At(arr, insertAt - 1)]
                 after == h[At(arr, insertAt)]
                 progress == RDiv(Num(time - before.time), Num(after.time - before.time))
                 eased == easingTimeToProgress(after.easing, progress)
             IN  IF eased.threw THEN Got(TRUE, Num(0), 1, 0)
                 ELSE Got(FALSE, scalarInterpolator(before.value, after.value, eased.progress), 1, 1)

\* BasicTimeline.get(time)
get(h, arr, init, time) ==
    LET idx == searchKeyframeIndex(h, arr, time)
        insertAt == -idx - 1
    IN  IF idx >= 0 THEN Got(FALSE, h[At(arr, idx)].value, 0, 0)
        ELSE IF insertAt - 1 < 0 THEN Got(FALSE, init, 0, 0)
        ELSE IF insertAt >= Len(arr) THEN Got(FALSE, h[At(arr, insertAt - 1)].value, 0, 0)
        ELSE LET before == h[At(arr, insertAt - 1)]
                 after == h[At(arr, insertAt)]
                 progress == RDiv(Num(time - before.time), Num(after.time - before.time))
                 eased == easingTimeToProgress(after.easing, progress)
             IN  IF eased.threw THEN Got(TRUE, Num(0), 1, 0)
                 ELSE Got(FALSE, scalarInterpolator(before.value, after.value, eased.progress), 1, 1)

\* The branch of BasicTimeline.get(time) that interpolates: whether it is
\* reached, and the keyframes and the normalized time it works on.
getBracket(h, arr, time) ==
    LET idx == searchKeyframeIndex(h, arr, time)
        insertAt == -idx - 1
    IN  IF idx >= 0 \/ insertAt - 1 < 0 \/ insertAt >= Len(arr)
        THEN [reached |-> FALSE, before |-> 0, after |-> 0, divisor |-> 0, progress |-> Num(0)]
        ELSE LET before == At(arr, insertAt - 1)
                 after == At(arr, insertAt)
             IN  [reached |-> TRUE, before |-> before, after |-> after,
                  divisor |-> h[after].time - h[before].time,
                  progress |-> IF h[after].time = h[before].time THEN Num(0)
                               ELSE RDiv(Num(time - h[before].time),
                                         Num(h[after].time - h[before].time))]

\* x ** degree for a whole degree >= 0
RECURSIVE RPow(_, _)
RPow(x, degree) == IF degree = 0 THEN Num(1) ELSE RMul(x, RPow(x, degree - 1))

\* applyPowerEasing(from, to, interpolator, degree, mode, x) of the legacy
\* implementation, with the scalar linear interpolator.
applyPowerEasing(from, to, degree, mode, x) ==
    CASE mode = "in" ->
            [threw |-> FALSE, value |-> scalarInterpolator(from, to, RPow(x, degree))]
      [] mode = "out" ->
            [threw |-> FALSE,
             value |-> scalarInterpolator(from, to, RSub(Num(1), RPow(RSub(Num(1), x), degree)))]
      [] mode = "in-out" ->
            [threw |-> FALSE,
             value |-> RDiv(scalarInterpolator(from, to,
                              IF RLess(x, Rat(1, 2))
                              THEN RMul(RPow(Num(2), degree - 1), RPow(x, degree))
                              ELSE RSub(Num(1), RPow(RAdd(RMul(Num(-2), x), Num(2)), degree))),
                            Num(2))]
      [] OTHER -> [threw |-> TRUE, value |-> Num(0)]

\* ------------------------------------------------- the legacy Timeline
\* A keyframe of the legacy implementation: a plain object.
Keyframe(time, value, easing) == [time |-> time, value |-> value, easing |-> easing]

\* Timeline.#searchIndex(time)
Timeline_searchIndex(h, arr, time) ==
    IF Len(arr) = 0 THEN -1 ELSE searchLoop(h, arr, time, 0, Len(arr) - 1)

\* this.#keyframes.findIndex(k => k == keyframe)
findIndex(arr, kf) ==
    IF \E i \in 1 .. Len(arr) : arr[i] = kf
    THEN (CHOOSE i \in 1 .. Len(arr) : arr[i] = kf /\ \A j \in 1 .. i - 1 : arr[j] # kf) - 1
    ELSE -1

\* Timeline.setValue(time, value, easing)
Timeline_setValue(h, kfs, tl, time, value, easing) ==
    LET arr == kfs[tl]
        idx == Timeline_searchIndex(h, arr, time)
    IN  IF idx >= 0
        THEN LET k == At(arr, idx)
             IN  Outcome([h EXCEPT ![k].value = value,
                                   ![k].easing = IF easing # NoEasing THEN easing ELSE @],
                         kfs, k)
        ELSE LET insertAt == -idx - 1
                 useEasing == IF easing # NoEasing THEN easing
                              ELSE IF insertAt < Len(arr) THEN h[At(arr, insertAt)].easing
                              ELSE IF insertAt - 1 >= 0 THEN h[At(arr, insertAt - 1)].easing
                              ELSE "linear"
                 k == Len(h) + 1
             IN  Outcome(Append(h, Keyframe(time, value, useEasing)),
                         [kfs EXCEPT ![tl] = splice(arr, insertAt, 0, <<k>>)], k)

\* What setTime and delete did: the heap, the arrays, and whether they threw.
Threw(h, kfs) == [heap |-> h, keyframes |-> kfs, threw |-> TRUE]
Returned(h, kfs) == [heap |-> h, keyframes |-> kfs, threw |-> FALSE]

\* Timeline.setTime(keyframe, newTime)
Timeline_setTime(h, kfs, tl, keyframe, newTime) ==
    LET arr == kfs[tl]
        found == Timeline_searchIndex(h, arr, h[keyframe].time)
        moveFrom == IF found < 0 THEN findIndex(arr, keyframe) ELSE found
    IN  IF moveFrom = -1 THEN Threw(h, kfs)
        ELSE LET searchTo == Timeline_searchIndex(h, arr, newTime)
                 moveTo == IF searchTo >= 0 THEN searchTo ELSE -searchTo - 1
                 k == At(arr, moveFrom)
                 inserted == splice(arr, moveTo, 0, <<k>>)
             IN  Returned([h EXCEPT ![k].time = newTime],
                          [kfs EXCEPT ![tl] =
                              splice(inserted, IF moveTo < moveFrom THEN moveFrom + 1 ELSE moveFrom,
                                     1, <<>>)])

\* Timeline.delete(keyframe)
Timeline_delete(h, kfs, tl, keyframe) ==
    LET arr == kfs[tl]
        found == Timeline_searchIndex(h, arr, h[keyframe].time)
        idx == IF found < 0 THEN findIndex(arr, keyframe) ELSE found
    IN  IF idx = -1 THEN Threw(h, kfs)
        ELSE Returned(h, [kfs EXCEPT ![tl] = splice(arr, idx, 1, <<>>)])

\* ------------------------------------------------------------- the calls
NoGot == Got(FALSE, Num(0), 0, 0)

\* The record of a call: `kf` is the keyframe assigned to or returned (0: none),
\* `time` the time of a get() (-1: none) and `got` its result.
\* `list` is the list of keyframes a call returned and `index` the number
\* searchKeyframeIndex() returned (0 where the call returns none).
Call(op, kf, time, got) ==
    [op |-> op, kf |-> kf, time |-> time, got |-> got, list |-> <<>>, index |-> 0]

\* The record of a call that returned a list of keyframes.
CallList(op, list) == [Call(op, 0, -1, NoGot) EXCEPT !.list = list]

Allocated == 1 .. Len(heap)
Times == 0 .. inputs.maxTime

\* Some keyframe other than kf in the array has time t.
Occupied(h, arr, kf, t) == \E i \in 1 .. Len(arr) : arr[i] # kf /\ h[arr[i]].time = t

\* No easing or interpolator function has been called on its own.
NoEval == [op |-> "none"]

\* The caller holds no serializable object.
NoSnap ==
    [exists |-> FALSE, loaded |-> FALSE,
     data |-> [initialValue |-> Num(0), keyframes |-> <<>>],
     taken |-> [initialValue |-> Num(0), keyframes |-> <<>>]]

InitState ==
    /\ initialValue = [tl \in Timelines |-> Num(0)]
    /\ keyframes = [tl \in Timelines |-> <<>>]
    /\ heap = <<>>
    /\ last = Call("new", 0, -1, NoGot)
    /\ snap = NoSnap
    /\ objs = <<>>
    /\ eval = NoEval

Init == InitState /\ inputs = OrderInputs

InitValue == InitState /\ inputs = ValueInputs

InitLong == InitState /\ inputs = LongInputs

InitSerial == InitState /\ inputs = SerialInputs

\* The timeline is constructed with the caller's object 2 as initialValue.
InitAlias ==
    /\ initialValue = [tl \in Timelines |-> Ref(2)]
    /\ keyframes = [tl \in Timelines |-> <<>>]
    /\ heap = <<>>
    /\ last = Call("new", 0, -1, NoGot)
    /\ snap = NoSnap
    /\ objs = <<Num(1), Num(0)>>
    /\ eval = NoEval
    /\ inputs = AliasInputs

InitFlags == InitState /\ inputs = FlagInputs

\* The caller holds two vectors.
InitVector ==
    /\ initialValue = [tl \in Timelines |-> Num(0)]
    /\ keyframes = [tl \in Timelines |-> <<>>]
    /\ heap = <<>>
    /\ last = Call("new", 0, -1, NoGot)
    /\ snap = NoSnap
    /\ objs \in {<<a, b>> : a \in Vectors, b \in Vectors}
    /\ eval = NoEval
    /\ inputs = VectorInputs

\* The caller holds two records with the same fields.
InitStruct ==
    /\ initialValue = [tl \in Timelines |-> Num(0)]
    /\ keyframes = [tl \in Timelines |-> <<>>]
    /\ heap = <<>>
    /\ last = Call("new", 0, -1, NoGot)
    /\ snap = NoSnap
    /\ objs \in {<<a, b>> : a \in Structs, b \in Structs}
    /\ eval = NoEval
    /\ inputs = StructInputs

\* The caller holds two vectors, or two records.
InitComponents == InitVector \/ InitStruct

InitLegacy == InitState /\ inputs = LegacyInputs

InitBracket == InitState /\ inputs = BracketInputs

\* new BasicTimeline(1, ...) and new BasicTimeline(0, ...)
InitPair ==
    /\ initialValue = [tl \in PairTimelines |-> IF tl = "A" THEN Num(1) ELSE Num(0)]
    /\ keyframes = [tl \in PairTimelines |-> <<>>]
    /\ heap = <<>>
    /\ last = Call("new", 0, -1, NoGot)
    /\ snap = NoSnap
    /\ objs = <<>>
    /\ eval = NoEval
    /\ inputs = PairInputs

InitPower == InitState /\ inputs = PowerInputs

InitCurve == InitState /\ inputs = CurveInputs

InitBezier == InitState /\ inputs = BezierInputs

InitDiagonal == InitState /\ inputs = DiagonalInputs

InitEasing == InitState /\ inputs = EasingInputs

InitBlend == InitState /\ inputs = BlendInputs

Add(tl, time, value, easing) ==
    /\ Len(heap) < inputs.maxKf
    /\ LET out == add(heap, keyframes, tl, time, value, easing)
       IN  /\ heap' = out.heap
           /\ keyframes' = out.keyframes
           /\ last' = Call("add", out.ret, -1, NoGot)
    /\ UNCHANGED <<initialValue, inputs, eval, snap, objs>>

Set(tl, time, value, easing) ==
    /\ searchKeyframeIndex(heap, keyframes[tl], time) >= 0 \/ Len(heap) < inputs.maxKf
    /\ LET out == set(heap, keyframes, tl, time, value, easing)
       IN  /\ heap' = out.heap
           /\ keyframes' = out.keyframes
           /\ last' = Call("set", out.ret, -1, NoGot)
    /\ UNCHANGED <<initialValue, inputs, eval, snap, objs>>

Remove(tl, ks) ==
    /\ keyframes' = [keyframes EXCEPT ![tl] = remove(heap, keyframes[tl], ks)]
    /\ last' = Call("remove", 0, -1, NoGot)
    /\ UNCHANGED <<initialValue, heap, inputs, eval, snap, objs>>

RemoveBetween(tl, timeStart, timeEnd) ==
    /\ keyframes' = [keyframes EXCEPT ![tl] =
                        removeBetween(heap, keyframes[tl], timeStart, timeEnd).keyframes]
    /\ last' = CallList("removeBetween",
                        removeBetween(heap, keyframes[tl], timeStart, timeEnd).removed)
    /\ UNCHANGED <<initialValue, heap, inputs, eval, snap, objs>>

SetTime(kf, newTime) ==
    /\ LET out == setTime(heap, keyframes, kf, newTime)
       IN  /\ heap' = out.heap
           /\ keyframes' = out.keyframes
           /\ last' = Call("setTime", kf, -1, NoGot)
    /\ UNCHANGED <<initialValue, inputs, eval, snap, objs>>

\* get() that keeps what it returned as the timeline's initialValue.
Get_keepsResult(tl, time) ==
    /\ last' = Call("get", 0, time, get(heap, keyframes[tl], initialValue[tl], time))
    /\ initialValue' = [initialValue EXCEPT ![tl] = last'.got.value]
    /\ UNCHANGED <<keyframes, heap, inputs, eval, snap, objs>>

Get(tl, time) ==
    /\ last' = Call("get", 0, time,
                    get(Resolved(objs, heap), keyframes[tl], Deref(objs, initialValue[tl]), time))
    /\ UNCHANGED <<initialValue, keyframes, heap, inputs, eval, snap, objs>>

GetKeyframeAt(tl, time) ==
    /\ last' = Call("getKeyframeAt", getKeyframeAt(heap, keyframes[tl], time), time, NoGot)
    /\ UNCHANGED <<initialValue, keyframes, heap, inputs, eval, snap, objs>>

GetKeyframesBetween(tl, timeStart, timeEnd) ==
    /\ last' = CallList("getKeyframesBetween",
                        getKeyframesBetween(heap, keyframes[tl], timeStart, timeEnd))
    /\ UNCHANGED <<initialValue, keyframes, heap, inputs, eval, snap, objs>>

SearchKeyframeIndex(tl, time) ==
    /\ last' = [Call("searchKeyframeIndex", 0, time, NoGot) EXCEPT
                    !.index = searchKeyframeIndex(heap, keyframes[tl], time)]
    /\ UNCHANGED <<initialValue, keyframes, heap, inputs, eval, snap, objs>>

AddFlag(kf, flag) ==
    /\ heap' = addFlag(heap, kf, flag)
    /\ last' = Call("addFlag", kf, -1, NoGot)
    /\ UNCHANGED <<initialValue, keyframes, inputs, eval, snap, objs>>

AddWithFlags(tl, time, value, easing, flags) ==
    /\ Len(heap) < inputs.maxKf
    /\ LET out == addWithFlags(heap, keyframes, tl, time, value, easing, flags)
       IN  /\ heap' = out.heap
           /\ keyframes' = out.keyframes
           /\ last' = Call("add", out.ret, -1, NoGot)
    /\ UNCHANGED <<initialValue, inputs, eval, snap, objs>>

RemoveFlag(kf, flag) ==
    /\ heap' = removeFlag(heap, kf, flag)
    /\ last' = Call("removeFlag", kf, -1, NoGot)
    /\ UNCHANGED <<initialValue, keyframes, inputs, eval, snap, objs>>

\* The caller reads keyframe.flags: a new array with the elements of #flags.
GetFlags(kf) ==
    /\ last' = [Call("flags", kf, -1, NoGot) EXCEPT !.list = <<>> \o heap[kf].flags]
    /\ UNCHANGED <<initialValue, keyframes, heap, inputs, eval, snap, objs>>

\* The caller pushes a flag onto, or pops one from, the array that
\* keyframe.flags returned.
WriteFlagsRead(flag) ==
    /\ last.op \in {"flags", "flags.write"}
    /\ \/ Len(last.list) < 2 /\ last' = [last EXCEPT !.op = "flags.write", !.list = Append(@, flag)]
       \/ Len(last.list) > 0 /\ last' = [last EXCEPT !.op = "flags.write", !.list = Tail(@)]
    /\ UNCHANGED <<initialValue, keyframes, heap, inputs, eval, snap, objs>>

VectorInterpolator(from, to, p) ==
    /\ Len(vectorInterpolator(objs, from, to, p).objs) <= inputs.maxObjs
    /\ LET out == vectorInterpolator(objs, from, to, p)
       IN  /\ objs' = out.objs
           /\ eval' = [op |-> "vectorInterpolator", from |-> from, to |-> to, p |-> p,
                       ret |-> out.ret]
    /\ UNCHANGED <<initialValue, keyframes, heap, last, inputs, snap>>

StructInterpolator(from, to, p) ==
    /\ Len(structInterpolator(objs, from, to, p).objs) <= inputs.maxObjs
    /\ LET out == structInterpolator(objs, from, to, p)
       IN  /\ objs' = out.objs
           /\ eval' = [op |-> "structInterpolator", from |-> from, to |-> to, p |-> p,
                       ret |-> out.ret]
    /\ UNCHANGED <<initialValue, keyframes, heap, last, inputs, snap>>

\* The record of a call of the legacy Timeline, which may have thrown.
TimelineCall(op, kf, threw) ==
    [op |-> op, kf |-> kf, time |-> -1, got |-> NoGot, list |-> <<>>, index |-> 0,
     threw |-> threw]

\* The caller calls setValue of the legacy Timeline.
TimelineSetValue(tl, time, value, easing) ==
    /\ LET out == Timeline_setValue(heap, keyframes, tl, time, value, easing)
       IN  /\ Len(out.keyframes[tl]) <= inputs.maxKf
           /\ Len(out.heap) <= inputs.maxHeap
           /\ heap' = out.heap
           /\ keyframes' = out.keyframes
           /\ last' = TimelineCall("setValue", out.ret, FALSE)
    /\ UNCHANGED <<initialValue, inputs, eval, snap, objs>>

\* The caller makes a keyframe object of its own: { time, value, easing }.
NewKeyframe(time, value) ==
    /\ Len(heap) < inputs.maxHeap
    /\ heap' = Append(heap, Keyframe(time, value, "linear"))
    /\ last' = TimelineCall("new", Len(heap) + 1, FALSE)
    /\ UNCHANGED <<initialValue, keyframes, inputs, eval, snap, objs>>

\* The caller calls setTime of the legacy Timeline with a keyframe object.
TimelineSetTime(tl, kf, newTime) ==
    /\ LET out == Timeline_setTime(heap, keyframes, tl, kf, newTime)
       IN  /\ heap' = out.heap
           /\ keyframes' = out.keyframes
           /\ last' = TimelineCall("setTime", kf, out.threw)
    /\ UNCHANGED <<initialValue, inputs, eval, snap, objs>>

\* The caller calls delete of the legacy Timeline with a keyframe object.
TimelineDelete(tl, kf) ==
    /\ LET out == Timeline_delete(heap, keyframes, tl, kf)
       IN  /\ heap' = out.heap
           /\ keyframes' = out.keyframes
           /\ last' = TimelineCall("delete", kf, out.threw)
    /\ UNCHANGED <<initialValue, inputs, eval, snap, objs>>

\* The caller calls the legacy applyPowerEasing.
ApplyPowerEasing(from, to, degree, mode, x) ==
    /\ eval' = [op |-> "applyPowerEasing", from |-> from, to |-> to, degree |-> degree,
                mode |-> mode, x |-> x,
                threw |-> applyPowerEasing(from, to, degree, mode, x).threw,
                ret |-> applyPowerEasing(from, to, degree, mode, x).value]
    /\ UNCHANGED <<initialValue, keyframes, heap, last, inputs, snap, objs>>

\* What the call of an easing function did.
Eased(op, easing, time, out) ==
    [op |-> op, easing |-> easing, time |-> time, threw |-> out.threw, progress |-> out.progress]

\* The caller calls predefinedEasings[name](time).
PredefinedEasings(name, time) ==
    /\ eval' = Eased("predefinedEasings", NameEasing(name), time,
                     [threw |-> FALSE, progress |-> predefinedEasings(name, time)])
    /\ UNCHANGED <<initialValue, keyframes, heap, last, inputs, snap, objs>>

\* The caller calls predefinedEasingFunctions[name](time) of the legacy
\* implementation.
PredefinedEasingFunctions(name, time) ==
    /\ eval' = Eased("predefinedEasingFunctions", NameEasing(name), time,
                     [threw |-> FALSE, progress |-> predefinedEasingFunctions(name, time)])
    /\ UNCHANGED <<initialValue, keyframes, heap, last, inputs, snap, objs>>

\* The caller calls easingTimeToProgress(easing, time).
EasingTimeToProgress(easing, time) ==
    /\ eval' = Eased("easingTimeToProgress", easing, time,
                     anyEasingTimeToProgress(easing, time))
    /\ UNCHANGED <<initialValue, keyframes, heap, last, inputs, snap, objs>>

\* The caller calls cubicBezierEasingTimeToProgress(time, cp1, cp2): the
\* control points are clamped and the loop is entered.
CubicBezierEasingTimeToProgress(time, cp1, cp2) ==
    /\ eval' = cubicBezierEasingEntry(time, cp1, cp2)
    /\ UNCHANGED <<initialValue, keyframes, heap, last, inputs, snap, objs>>

\* The caller calls the legacy applyEasing with a cubic-bezier descriptor.
ApplyEasing(easing, progress) ==
    /\ eval' = applyEasing(easing, progress)
    /\ UNCHANGED <<initialValue, keyframes, heap, last, inputs, snap, objs>>

\* The bisection in progress tests its loop condition and iterates or returns.
Bisect ==
    /\ eval.op \in {"cubicBezierEasingTimeToProgress", "applyCubicBezier"}
    /\ ~eval.done
    /\ eval' = bisect(eval)
    /\ UNCHANGED <<initialValue, keyframes, heap, last, inputs, snap, objs>>

\* The caller takes timeline.asSerializable and holds it.
AsSerializable(tl) ==
    /\ Len(asSerializable(heap, keyframes[tl], initialValue[tl], objs).objs) <= inputs.maxObjs
    /\ LET out == asSerializable(heap, keyframes[tl], initialValue[tl], objs)
       IN  /\ objs' = out.objs
           /\ snap' = [exists |-> TRUE, loaded |-> FALSE, data |-> out.data,
                       taken |-> SnapView(out.objs, out.data)]
    /\ last' = Call("asSerializable", 0, -1, NoGot)
    /\ UNCHANGED <<initialValue, keyframes, heap, inputs, eval>>

\* The caller loads the serializable object it holds.
LoadFromSerializable(tl) ==
    /\ snap.exists
    /\ Len(heap) + Len(snap.data.keyframes) <= inputs.maxHeap
    /\ Len(loadFromSerializable(heap, objs, tl, snap.data).objs) <= inputs.maxObjs
    /\ LET out == loadFromSerializable(heap, objs, tl, snap.data)
       IN  /\ heap' = out.heap
           /\ objs' = out.objs
           /\ initialValue' = [initialValue EXCEPT ![tl] = out.initialValue]
           /\ keyframes' = [keyframes EXCEPT ![tl] = out.keyframes]
    /\ snap' = [snap EXCEPT !.loaded = TRUE]
    /\ last' = Call("loadFromSerializable", 0, -1, NoGot)
    /\ UNCHANGED <<inputs, eval>>

\* The caller writes into the initialValue object of the serializable.
MutateDataInitialValue(content) ==
    /\ snap.exists
    /\ IsRef(snap.data.initialValue)
    /\ objs' = [objs EXCEPT ![snap.data.initialValue[1]] = content]
    /\ last' = Call("data.initialValue", 0, -1, NoGot)
    /\ UNCHANGED <<initialValue, keyframes, heap, inputs, eval, snap>>

\* The caller writes into the value object of the i-th entry of the serializable.
MutateDataValue(i, content) ==
    /\ snap.exists
    /\ i <= Len(snap.data.keyframes)
    /\ IsRef(snap.data.keyframes[i].value)
    /\ objs' = [objs EXCEPT ![snap.data.keyframes[i].value[1]] = content]
    /\ last' = Call("data.keyframes.value", 0, -1, NoGot)
    /\ UNCHANGED <<initialValue, keyframes, heap, inputs, eval, snap>>

\* The caller assigns time, easing and flags of the i-th entry of the serializable.
MutateDataEntry(i, time, easing, flags) ==
    /\ snap.exists
    /\ i <= Len(snap.data.keyframes)
    /\ snap' = [snap EXCEPT !.data.keyframes[i] =
                    [@ EXCEPT !.time = time, !.easing = easing, !.flags = flags]]
    /\ last' = Call("data.keyframes.entry", 0, -1, NoGot)
    /\ UNCHANGED <<initialValue, keyframes, heap, inputs, eval, objs>>

\* The caller swaps the entries i and i + 1 of the serializable.
PermuteData(i) ==
    /\ snap.exists
    /\ i + 1 <= Len(snap.data.keyframes)
    /\ snap' = [snap EXCEPT !.data.keyframes =
                    [@ EXCEPT ![i] = snap.data.keyframes[i + 1],
                              ![i + 1] = snap.data.keyframes[i]]]
    /\ last' = Call("data.keyframes.swap", 0, -1, NoGot)
    /\ UNCHANGED <<initialValue, keyframes, heap, inputs, eval, objs>>

\* Argument lists of remove(): one keyframe, or two (possibly the same twice).
RemoveArgs == {<<k>> : k \in Allocated} \cup {<<k1, k2>> : k1 \in Allocated, k2 \in Allocated}

Next ==
    \/ \E tl \in Timelines, t \in Times, v \in inputs.values, e \in inputs.easings :
            Add(tl, t, v, e)
    \/ \E tl \in Timelines, t \in Times, v \in inputs.values, e \in inputs.easings :
            Set(tl, t, v, e)
    \/ \E tl \in Timelines, ks \in RemoveArgs : Remove(tl, ks)
    \/ \E tl \in Timelines, a \in Times, b \in Times : RemoveBetween(tl, a, b)
    \/ \E kf \in Allocated, t \in Times : SetTime(kf, t)
    \/ \E tl \in Timelines, t \in Times : Get(tl, t)

\* The calls of Next and the queries for keyframes.
NextQuery ==
    \/ Next
    \/ \E tl \in Timelines, t \in Times : GetKeyframeAt(tl, t)
    \/ \E tl \in Timelines, a \in Times, b \in Times : GetKeyframesBetween(tl, a, b)
    \/ \E tl \in Timelines, t \in Times : SearchKeyframeIndex(tl, t)

\* Callers that build a timeline, serialize it, reorder the entries of the
\* serializable and load it.  They leave the timeline alone once they have
\* taken a serializable (loadFromSerializable reads nothing of the timeline
\* it is called on, so this is every load there is).
NextSerial ==
    \/ /\ ~snap.exists
       /\ \/ \E tl \in Timelines, t \in Times, v \in inputs.values, e \in inputs.easings :
                  Add(tl, t, v, e)
          \/ \E tl \in Timelines, k \in Allocated : Remove(tl, <<k>>)
          \/ \E kf \in Allocated, t \in Times : SetTime(kf, t)
          \/ \E kf \in Allocated : AddFlag(kf, "locked")
    \/ \E tl \in Timelines : AsSerializable(tl)
    \/ /\ ~snap.loaded
       /\ \/ \E tl \in Timelines : LoadFromSerializable(tl)
          \/ \E i \in 1 .. inputs.maxKf : PermuteData(i)

\* Callers that change a timeline and write into a serializable they hold.
NextAlias ==
    \/ \E tl \in Timelines, t \in Times, v \in inputs.values, e \in inputs.easings :
            Add(tl, t, v, e)
    \/ \E tl \in Timelines, t \in Times, v \in inputs.values, e \in inputs.easings :
            Set(tl, t, v, e)
    \/ \E tl \in Timelines, k \in Allocated : Remove(tl, <<k>>)
    \/ \E kf \in Allocated, t \in Times : SetTime(kf, t)
    \/ \E tl \in Timelines, t \in Times : Get(tl, t)
    \/ \E kf \in Allocated : AddFlag(kf, "locked")
    \/ \E tl \in Timelines : AsSerializable(tl)
    \/ \E tl \in Timelines : LoadFromSerializable(tl)
    \/ \E c \in inputs.contents : MutateDataInitialValue(c)
    \/ \E i \in 1 .. inputs.maxKf, c \in inputs.contents : MutateDataValue(i, c)
    \/ \E i \in 1 .. inputs.maxKf, t \in Times : MutateDataEntry(i, t, "hold", <<"locked">>)

\* Callers that pass flags to add(), change and read the flags of keyframes,
\* and serialize and load the timeline.
NextFlags ==
    \/ \E tl \in Timelines, t \in Times, v \in inputs.values, e \in inputs.easings,
          fs \in inputs.flagLists : AddWithFlags(tl, t, v, e, fs)
    \/ \E kf \in Allocated : AddFlag(kf, "locked")
    \/ \E kf \in Allocated : RemoveFlag(kf, "locked")
    \/ \E kf \in Allocated : GetFlags(kf)
    \/ WriteFlagsRead("locked")
    \/ \E tl \in Timelines : AsSerializable(tl)
    \/ \E tl \in Timelines : LoadFromSerializable(tl)

\* Callers of vectorInterpolator.
NextVector ==
    \E from \in inputs.values, to \in inputs.values, p \in inputs.progress :
        VectorInterpolator(from, to, p)

\* Callers of the easing functions: each run is one call (the functions
\* keep no state, so a call does not depend on the calls before it).
NextCurve ==
    /\ eval.op = "none"
    /\ \/ \E name \in inputs.names, t \in inputs.times : PredefinedEasings(name, t)
       \/ \E name \in inputs.names, t \in inputs.times : PredefinedEasingFunctions(name, t)
       \/ \E e \in inputs.easings, t \in inputs.times : EasingTimeToProgress(e, t)

\* Callers of the cubic-bezier easing of both implementations: each run is
\* one call.
NextBezier ==
    \/ /\ eval.op = "none"
       /\ \E t \in inputs.times, cp1 \in inputs.cp1, cp2 \in inputs.cp2 :
             CubicBezierEasingTimeToProgress(t, cp1, cp2)
    \/ /\ eval.op = "none"
       /\ \E t \in inputs.times, cp1 \in inputs.cp1, cp2 \in inputs.cp2 :
             ApplyEasing(CubicBezierEasing(cp1, cp2), t)
    \/ Bisect

\* The ordering of the array: one value, derived easings.
Spec == Init /\ [][Next]_vars

\* Values and easings, on fewer keyframes.
SpecValue == InitValue /\ [][Next]_vars

\* The ordering of longer arrays.
SpecLong == InitLong /\ [][Next]_vars

\* Easings of every kind.
SpecEasing == InitEasing /\ [][Next]_vars

\* Two values on arrays of three.
SpecBlend == InitBlend /\ [][Next]_vars

\* Serializing and loading.
SpecSerial == InitSerial /\ [][NextSerial]_vars

\* Serializing and loading, with values that are objects.
SpecAlias == InitAlias /\ [][NextAlias]_vars

\* vectorInterpolator on vectors of equal and of different lengths.
SpecVector == InitVector /\ [][NextVector]_vars

\* The easing functions, called on their own.
SpecCurve == InitCurve /\ [][NextCurve]_vars

\* The cubic-bezier easing of both implementations.
SpecBezier == InitBezier /\ [][NextBezier]_vars

\* The cubic-bezier easing with control points on the diagonal.
SpecDiagonal == InitDiagonal /\ [][NextBezier]_vars

\* Callers of vectorInterpolator and of structInterpolator.
NextComponents ==
    \/ /\ inputs.shape = "vector"
       /\ \E from \in inputs.values, to \in inputs.values, p \in inputs.progress :
             VectorInterpolator(from, to, p)
    \/ /\ inputs.shape = "struct"
       /\ \E from \in inputs.values, to \in inputs.values, p \in inputs.progress :
             StructInterpolator(from, to, p)

\* The interpolators of vectors and of records.
SpecComponents == InitComponents /\ [][NextComponents]_vars

\* Callers of the legacy Timeline.
NextLegacy ==
    \/ \E tl \in Timelines, t \in Times, v \in inputs.values :
          TimelineSetValue(tl, t, v, NoEasing)
    \/ \E t \in Times, v \in inputs.values : NewKeyframe(t, v)
    \/ \E tl \in Timelines, kf \in Allocated, t \in Times : TimelineSetTime(tl, kf, t)
    \/ \E tl \in Timelines, kf \in Allocated : TimelineDelete(tl, kf)

\* The legacy Timeline.
SpecLegacy == InitLegacy /\ [][NextLegacy]_vars

\* The ordering of the array over more times.
SpecBracket == InitBracket /\ [][Next]_vars

\* Callers of two timelines: the serializable of A is taken once and loaded
\* into B once; set, add, remove and time changes go on before and after.
NextPair ==
    \/ \E tl \in PairTimelines, t \in Times, v \in inputs.values, e \in inputs.easings :
            Add(tl, t, v, e)
    \/ \E tl \in PairTimelines, t \in Times, v \in inputs.values, e \in inputs.easings :
            Set(tl, t, v, e)
    \/ \E tl \in PairTimelines, k \in Allocated : Remove(tl, <<k>>)
    \/ \E kf \in Allocated, t \in Times : SetTime(kf, t)
    \/ ~snap.exists /\ AsSerializable("A")
    \/ ~snap.loaded /\ LoadFromSerializable("B")

\* Two timelines, one loaded from the serializable of the other.
SpecPair == InitPair /\ [][NextPair]_vars

\* Callers of the legacy power easing: each run is one call.
NextPower ==
    /\ eval.op = "none"
    /\ \E from \in inputs.values, to \in inputs.values, degree \in inputs.degrees,
          mode \in inputs.modes, x \in inputs.times :
            ApplyPowerEasing(from, to, degree, mode, x)

\* The legacy power easing.
SpecPower == InitPower /\ [][NextPower]_vars

\* The flags of keyframes.
SpecFlags == InitFlags /\ [][NextFlags]_vars

\* The ordering of the array, with the queries for keyframes.
SpecQuery == Init /\ [][NextQuery]_vars

\* =================================================================== claims
StrictAsc(h, arr) == \A i \in 1 .. Len(arr) - 1 : h[arr[i]].time < h[arr[i + 1]].time
DistinctTimes(h, arr) ==
    \A i, j \in 1 .. Len(arr) : i # j => h[arr[i]].time # h[arr[j]].time
Attached(kf) == kf \in Elems(keyframes[heap[kf].timeline])

\* This step is an add() at a time a keyframe of the array already has, or a
\* time assignment to the time of another keyframe of the array.
HitsOccupied ==
    \/ \E tl \in Timelines, t \in Times, v \in inputs.values, e \in inputs.easings :
            Add(tl, t, v, e) /\ Occupied(heap, keyframes[tl], 0, t)
    \/ \E kf \in Allocated, t \in Times :
            SetTime(kf, t) /\ Occupied(heap, keyframes[heap[kf].timeline], kf, t)

\* C1 as stated: after any sequence of set, add, remove and time changes the
\* keyframes array is ascending by time and no two keyframes share a time.
C1_AlwaysStrictlyAscending == \A tl \in Timelines : StrictAsc(heap, keyframes[tl])

\* C1 (amended): every call made on a strictly ascending array leaves the array
\* strictly ascending, unless the call is an add() at an occupied time or a
\* time assignment to the time of another keyframe; the timeline starts empty.
C1_StrictlyAscendingKept ==
    [][(C1_AlwaysStrictlyAscending /\ ~HitsOccupied) => C1_AlwaysStrictlyAscending']_vars

\* A time assignment has just acted on a full, strictly ascending array.
C1_Witness ==
    /\ last.op = "setTime"
    /\ Len(keyframes["A"]) = inputs.maxKf
    /\ StrictAsc(heap, keyframes["A"])
    /\ heap[last.kf].time # 0
    /\ keyframes["A"][1] = inputs.maxKf

\* The array after the call holds the keyframes it held before, each once,
\* strictly ascending, kf at time t, the others in their previous order.
C2_Moved(kf, t) ==
    LET tl == heap[kf].timeline
        before == keyframes[tl]
        after == keyframes'[tl]
    IN  /\ Len(after) = Len(before)
        /\ \A k \in Elems(before) : Count(after, k) = 1
        /\ StrictAsc(heap', after)
        /\ heap'[kf].time = t
        /\ Without(after, kf) = Without(before, kf)
        /\ \A k \in Allocated \ {kf} : heap'[k] = heap[k]
        /\ t = heap[kf].time => (keyframes' = keyframes /\ heap' = heap)

C3_DetachedTimeChangeIsInert ==
    [][\A kf \in Allocated, t \in Times :
          (SetTime(kf, t) /\ ~Attached(kf)) => keyframes' = keyframes]_vars

\* C4: remove(k) of a keyframe that is not in the array leaves the array as it
\* is, and so does removing it twice (remove(k, k) runs the loop body twice).
C4_RemoveAbsentIsInert ==
    [][\A tl \in Timelines, k \in Allocated :
          ((Remove(tl, <<k>>) \/ Remove(tl, <<k, k>>)) /\ k \notin Elems(keyframes[tl]))
          => keyframes' = keyframes]_vars

\* What set(t, v, e) has to do: update the keyframe at t, or insert one.
C5_SetPost(tl, t, v, e) ==
    LET arr == keyframes[tl]
        same == {k \in Elems(arr) : heap[k].time = t}
        k == last'.kf
        at == CHOOSE i \in 1 .. Len(keyframes'[tl]) : keyframes'[tl][i] = k
    IN  IF same # {}
        THEN /\ keyframes' = keyframes
             /\ k \in same
             /\ heap' = [heap EXCEPT ![k].value = v,
                                     ![k].easing = IF e # NoEasing THEN e ELSE @]
        ELSE /\ Len(keyframes'[tl]) = Len(arr) + 1
             /\ k \notin Allocated
             /\ Count(keyframes'[tl], k) = 1
             /\ heap'[k].time = t /\ heap'[k].value = v
             /\ Without(keyframes'[tl], k) = arr
             /\ \A i \in 1 .. Len(keyframes'[tl]) :
                    /\ i < at => heap'[keyframes'[tl][i]].time < t
                    /\ i > at => heap'[keyframes'[tl][i]].time > t
             /\ \A o \in Allocated : heap'[o] = heap[o]

\* C5: set(time, value, easing?) updates the keyframe with exactly that time
\* (value, and easing only when passed) and returns it, or else inserts one
\* keyframe at the sorted position and leaves every other keyframe as it was.
C5_SetIsUpdateOrInsert ==
    [][\A tl \in Timelines, t \in Times, v \in inputs.values, e \in inputs.easings :
          Set(tl, t, v, e) => C5_SetPost(tl, t, v, e)]_vars

\* C6: add(time, value) makes the array one longer by a new keyframe with that
\* time and value; the keyframes that existed keep their place in the order,
\* their time, value and easing.
C6_AddAlwaysCreates ==
    [][\A tl \in Timelines, t \in Times, v \in inputs.values, e \in inputs.easings :
          Add(tl, t, v, e) =>
              LET k == last'.kf
              IN  /\ Len(keyframes'[tl]) = Len(keyframes[tl]) + 1
                  /\ k \notin Allocated
                  /\ Count(keyframes'[tl], k) = 1
                  /\ heap'[k].time = t /\ heap'[k].value = v
                  /\ Without(keyframes'[tl], k) = keyframes[tl]
                  /\ \A o \in Allocated : heap'[o] = heap[o]]_vars

\* add() has just added a keyframe at the time of a keyframe that is in the
\* array already.
C6_Witness ==
    /\ last.op = "add"
    /\ Occupied(heap, keyframes["A"], last.kf, heap[last.kf].time)
    /\ Len(keyframes["A"]) = inputs.maxKf

\* C7 as stated: get(k.time) returns k.value, without easing or interpolator,
\* for every keyframe k of the array.
C7_GetAtKeyframeTime ==
    [][\A tl \in Timelines, k \in Allocated :
          (k \in Elems(keyframes[tl]) /\ Get(tl, heap[k].time))
          => last'.got = Got(FALSE, heap[k].value, 0, 0)]_vars

\* C7 (amended): the same on an array that is strictly ascending by time; and
\* a get(t) right after set(t, v) on such an array returns v.
C7_GetAtKeyframeTimeAscending ==
    [][\A tl \in Timelines, k \in Allocated :
          (/\ k \in Elems(keyframes[tl])
           /\ StrictAsc(heap, keyframes[tl])
           /\ Get(tl, heap[k].time))
          => /\ last'.got = Got(FALSE, heap[k].value, 0, 0)
             /\ (last.op = "set" /\ last.kf = k) => last'.got.value = heap[k].value]_vars

\* get() has just been asked for the time of the second of two keyframes with
\* different values and has returned the value of that keyframe.
C7_Witness ==
    /\ last.op = "get"
    /\ Len(keyframes["A"]) = 2
    /\ StrictAsc(heap, keyframes["A"])
    /\ last.time = heap[keyframes["A"][2]].time
    /\ heap[keyframes["A"][1]].value # heap[keyframes["A"][2]].value
    /\ last.got = Got(FALSE, heap[keyframes["A"][2]].value, 0, 0)

\* C8: get(t) returns initialValue on an empty array and for t earlier than
\* the time of the first keyframe, and the value of the last keyframe, without
\* easing or interpolator, for t later than the time of the last keyframe.
C8_GetOutsideKeyframes ==
    [][\A tl \in Timelines, t \in Times :
          Get(tl, t) =>
              LET arr == keyframes[tl]
              IN  /\ (Len(arr) = 0 \/ t < heap[arr[1]].time)
                        => last'.got = Got(FALSE, initialValue[tl], 0, 0)
                  /\ (Len(arr) > 0 /\ t > heap[arr[Len(arr)]].time)
                        => last'.got = Got(FALSE, heap[arr[Len(arr)]].value, 0, 0)]_vars

\* The easing evaluator E for the easings of this model (no throw on them).
C9_E(easing, x) == easingTimeToProgress(easing, x).progress

\* What C9 says get(t) returns between the adjacent keyframes b and a.
C9_Blend(b, a, t) ==
    Got(FALSE,
        scalarInterpolator(b.value, a.value,
            C9_E(a.easing, RDiv(Num(t - b.time), Num(a.time - b.time)))),
        1, 1)

C9_Witness ==
    /\ last.op = "get"
    /\ Len(keyframes["A"]) = 2
    /\ heap[keyframes["A"][1]].time < last.time
    /\ last.time < heap[keyframes["A"][2]].time
    /\ heap[keyframes["A"][1]].easing = "hold"
    /\ heap[keyframes["A"][2]].easing = "linear"
    /\ heap[keyframes["A"][1]].value = Num(1)
    /\ heap[keyframes["A"][2]].value = Num(3)
    /\ last.got = Got(FALSE, Num(2), 1, 1)

RECURSIVE InRange(_, _, _, _, _)
InRange(h, arr, a, b, inside) ==
    IF arr = <<>> THEN <<>>
    ELSE LET in == a <= h[Head(arr)].time /\ h[Head(arr)].time < b
         IN  (IF in = inside THEN <<Head(arr)>> ELSE <<>>)
                 \o InRange(h, Tail(arr), a, b, inside)

\* list holds the same keyframes as of, each as often.
SameKeyframes(list, of) ==
    \A k \in Elems(list) \cup Elems(of) : Count(list, k) = Count(of, k)

Asc(h, arr) == \A i \in 1 .. Len(arr) - 1 : h[arr[i]].time <= h[arr[i + 1]].time

\* What getKeyframesBetween(a, b) has to do.
C11_Post(tl, a, b) ==
    /\ SameKeyframes(last'.list, InRange(heap, keyframes[tl], a, b, TRUE))
    /\ Asc(heap, last'.list)
    /\ UNCHANGED <<initialValue, keyframes, heap>>

C12_Post(tl, a, b) ==
    /\ SameKeyframes(last'.list, InRange(heap, keyframes[tl], a, b, TRUE))
    /\ Asc(heap, last'.list)
    /\ keyframes'[tl] = InRange(heap, keyframes[tl], a, b, FALSE)
    /\ a >= b => (last'.list = <<>> /\ keyframes' = keyframes)
    /\ UNCHANGED <<initialValue, heap>>

C18_SearchKeyframeIndex ==
    [][\A tl \in Timelines, t \in Times :
          (StrictAsc(heap, keyframes[tl]) /\ SearchKeyframeIndex(tl, t)) =>
              LET arr == keyframes[tl]
                  n == Len(arr)
                  p == Cardinality({i \in 1 .. n : heap[arr[i]].time < t})
              IN  /\ \A i \in 1 .. n : heap[arr[i]].time = t => last'.index = i - 1
                  /\ (\A i \in 1 .. n : heap[arr[i]].time # t) =>
                        /\ last'.index = -p - 1
                        /\ \A i \in 1 .. n : (i <= p) = (heap[arr[i]].time < t)
                        /\ \A i \in 1 .. n : (i > p) = (heap[arr[i]].time > t)
                  /\ n = 0 => last'.index = -1]_vars

\* searchKeyframeIndex(1) has just returned -2 on two keyframes at 0 and 2.
C18_Witness ==
    /\ last.op = "searchKeyframeIndex"
    /\ arrTimes(heap, keyframes["A"]) = <<0, 2>>
    /\ last.time = 1
    /\ last.index = -2

\* What the queries have to return after kf moved from time a to time b.
C19_Post(kf, a, b) ==
    LET tl == heap[kf].timeline
        arr == keyframes'[tl]
    IN  /\ get(heap', arr, initialValue'[tl], b) = Got(FALSE, heap'[kf].value, 0, 0)
        /\ getKeyframeAt(heap', arr, b) = kf
        /\ getKeyframeAt(heap', arr, a) = 0
        /\ Asc(heap', arr)

\* C19 as stated: after the time of a keyframe k of the timeline is changed
\* from a to an unoccupied time b, get(b) is k.value, getKeyframeAt(b) is k,
\* getKeyframeAt(a) is null and the keyframes are sorted by time.
C19_QueriesFollowTimeChange ==
    [][\A kf \in Allocated, b \in Times :
          (/\ SetTime(kf, b)
           /\ Attached(kf)
           /\ b # heap[kf].time
           /\ ~Occupied(heap, keyframes[heap[kf].timeline], kf, b))
          => C19_Post(kf, heap[kf].time, b)]_vars

\* C19 (amended): the same on an array that is strictly ascending by time.
C19_QueriesFollowTimeChangeAscending ==
    [][\A kf \in Allocated, b \in Times :
          (/\ SetTime(kf, b)
           /\ Attached(kf)
           /\ StrictAsc(heap, keyframes[heap[kf].timeline])
           /\ b # heap[kf].time
           /\ ~Occupied(heap, keyframes[heap[kf].timeline], kf, b))
          => C19_Post(kf, heap[kf].time, b)]_vars

\* The keyframe created first has just been moved past two others, and the
\* array is strictly ascending.
C19_Witness ==
    /\ last.op = "setTime"
    /\ Len(keyframes["A"]) = 3
    /\ StrictAsc(heap, keyframes["A"])
    /\ last.kf = 1
    /\ keyframes["A"][3] = 1
    /\ getKeyframeAt(heap, keyframes["A"], heap[1].time) = 1

\* The times of a list of serialized entries ascend (strictly).
AscEntries(es) == \A i \in 1 .. Len(es) - 1 : es[i].time <= es[i + 1].time
StrictAscEntries(es) == \A i \in 1 .. Len(es) - 1 : es[i].time < es[i + 1].time

\* Two lists hold the same entries, each as often, in some order.
Permuted(a, b) ==
    /\ Len(a) = Len(b)
    /\ \A x \in Elems(a) \cup Elems(b) : Count(a, x) = Count(b, x)

\* The timeline tl after the step holds what the serializable held when it
\* was taken, and serializes to the same.
C13_Post(tl) ==
    /\ TimelineView(heap', keyframes'[tl], initialValue'[tl], objs') = snap.taken
    /\ LET again == asSerializable(heap', keyframes'[tl], initialValue'[tl], objs')
       IN  SnapView(again.objs, again.data) = snap.taken

\* C13 as stated: loading the serializable of a timeline, its keyframe list
\* left as it was or permuted, gives a timeline with the same initialValue and
\* the same ordered list of (time, value, easing, flags), which serializes to
\* an equal serializable.
C13_RoundTrip ==
    [][\A tl \in Timelines :
          (/\ LoadFromSerializable(tl)
           /\ Permuted(SnapView(objs, snap.data).keyframes, snap.taken.keyframes)
           /\ SnapView(objs, snap.data).initialValue = snap.taken.initialValue)
          => C13_Post(tl)]_vars

\* C13, amended: the round trip holds when the times of the serialized
\* timeline ascend strictly, whatever the order of the list that is loaded,
\* and when they ascend with equal times and the list is loaded in the order
\* it was produced in.
C13_RoundTripAscending ==
    [][\A tl \in Timelines :
          (/\ LoadFromSerializable(tl)
           /\ Permuted(SnapView(objs, snap.data).keyframes, snap.taken.keyframes)
           /\ SnapView(objs, snap.data).initialValue = snap.taken.initialValue
           /\ \/ StrictAscEntries(snap.taken.keyframes)
              \/ /\ AscEntries(snap.taken.keyframes)
                 /\ SnapView(objs, snap.data) = snap.taken)
          => C13_Post(tl)]_vars

\* A serializable of two keyframes at different times, one of them flagged,
\* was loaded with its list reversed, and the timeline holds what it held when
\* the serializable was taken.
C13_Witness ==
    /\ last.op = "loadFromSerializable"
    /\ snap.loaded
    /\ Len(snap.taken.keyframes) = 2
    /\ StrictAscEntries(snap.taken.keyframes)
    /\ snap.taken.keyframes[1].flags # snap.taken.keyframes[2].flags
    /\ SnapView(objs, snap.data).keyframes
          = <<snap.taken.keyframes[2], snap.taken.keyframes[1]>>
    /\ TimelineView(heap, keyframes["A"], initialValue["A"], objs) = snap.taken

\* C14: after loadFromSerializable(data), whatever the order of
\* data.keyframes, the keyframes array of the timeline ascends by time and
\* holds one new keyframe per entry of data and none from before the load; and
\* the keyframe list that asSerializable produces ascends by time.
C14_LoadedAndSerializedAscending ==
    [][\A tl \in Timelines :
          /\ LoadFromSerializable(tl)
             => /\ Asc(heap', keyframes'[tl])
                /\ Len(keyframes'[tl]) = Len(snap.data.keyframes)
                /\ Elems(keyframes'[tl]) = Len(heap) + 1 .. Len(heap')
          /\ AsSerializable(tl)
             => AscEntries(snap'.data.keyframes)]_vars

\* The step is a write of the caller into the serializable it holds.
MutatesData ==
    \/ \E c \in inputs.contents : MutateDataInitialValue(c)
    \/ \E i \in 1 .. inputs.maxKf, c \in inputs.contents : MutateDataValue(i, c)
    \/ \E i \in 1 .. inputs.maxKf, t \in Times :
            MutateDataEntry(i, t, "hold", <<"locked">>)

\* The step changes neither what the timeline tl holds nor what its get()
\* returns.
TimelineKept(tl) ==
    /\ TimelineView(heap', keyframes'[tl], initialValue'[tl], objs')
          = TimelineView(heap, keyframes[tl], initialValue[tl], objs)
    /\ \A t \in Times :
          get(Resolved(objs', heap'), keyframes'[tl], Deref(objs', initialValue'[tl]), t)
             = get(Resolved(objs, heap), keyframes[tl], Deref(objs, initialValue[tl]), t)

\* C15: once loadFromSerializable(data) has returned, no write into data (its
\* initialValue, or the time, value, easing or flags of an entry) changes what
\* the timeline holds (initialValue, keyframe values, easings, flags) or what
\* get() returns.
C15_LoadCopies ==
    [][\A tl \in Timelines : (snap.loaded /\ MutatesData) => TimelineKept(tl)]_vars

\* The step changes nothing of what the serializable holds.
SnapKept == SnapView(objs', snap'.data) = SnapView(objs, snap.data)

\* C16: the value that asSerializable returned is independent of the
\* timeline: no write into it (its initialValue, or the time, value, easing or
\* flags of an entry) changes what the timeline holds or returns, and no later
\* set, add, remove, time change or addFlag on the timeline changes it.
C16_SnapshotIndependent ==
    [][\A tl \in Timelines :
          /\ (snap.exists /\ MutatesData) => TimelineKept(tl)
          /\ (snap.exists /\ last'.op \in {"set", "add", "remove", "setTime", "addFlag"})
                => SnapKept]_vars

\* No flag occurs twice in the list.
NoDuplicate(flags) == \A i, j \in 1 .. Len(flags) : flags[i] = flags[j] => i = j

\* C21: the flags of a keyframe are a set: no flag occurs twice in the flags
\* of any keyframe, whether it was made by add(..., flags) or
\* loadFromSerializable and whatever addFlag and removeFlag did to it; a flag
\* is among the flags after addFlag and is not after removeFlag; and a write
\* into the array that keyframe.flags returned leaves the flags of every
\* keyframe as they were.
C21_FlagsAreASet ==
    [][/\ \A kf \in 1 .. Len(heap') : NoDuplicate(heap'[kf].flags)
       /\ last'.op = "addFlag" => "locked" \in Elems(heap'[last'.kf].flags)
       /\ last'.op = "removeFlag" => "locked" \notin Elems(heap'[last'.kf].flags)
       /\ last'.op = "flags.write" => heap' = heap]_vars

\* C22: vectorInterpolator(from, to, p) returns from itself whenever from and
\* to have different lengths, for every p; and no call of it changes an
\* array that exists (from and to among them).
C22_VectorInterpolatorReturnsFrom ==
    [][\A from \in inputs.values, to \in inputs.values, p \in inputs.progress :
          VectorInterpolator(from, to, p)
          => /\ Len(Deref(objs, from)) # Len(Deref(objs, to)) => eval'.ret = from
             /\ \A k \in 1 .. Len(objs) : objs'[k] = objs[k]]_vars

\* vectorInterpolator was called with vectors of lengths 1 and 2 and a
\* progress above 1, and returned the first.
C22_Witness ==
    /\ eval.op = "vectorInterpolator"
    /\ Len(Deref(objs, eval.from)) = 1
    /\ Len(Deref(objs, eval.to)) = 2
    /\ eval.p = Num(2)
    /\ eval.ret = eval.from

\* arr without every occurrence of every keyframe of the set ks
RECURSIVE WithoutAll(_, _)
WithoutAll(arr, ks) ==
    IF arr = <<>> THEN <<>>
    ELSE IF Head(arr) \in ks THEN WithoutAll(Tail(arr), ks)
    ELSE <<Head(arr)>> \o WithoutAll(Tail(arr), ks)

\* C27: remove(k1, ..., kn) with keyframes that are in the array removes
\* exactly those keyframe objects, in every reachable state: afterwards none
\* of them is in the array, every other keyframe is in it in its previous
\* relative order, and the array is shorter by the number of distinct
\* keyframes given.
C27_RemoveRemovesThose ==
    [][\A tl \in Timelines, ks \in RemoveArgs :
          (Remove(tl, ks) /\ Elems(ks) \subseteq Elems(keyframes[tl]))
          => /\ Elems(ks) \cap Elems(keyframes'[tl]) = {}
             /\ keyframes'[tl] = WithoutAll(keyframes[tl], Elems(ks))
             /\ Len(keyframes'[tl]) = Len(keyframes[tl]) - Cardinality(Elems(ks))]_vars

\* The position of keyframe k in the array.
PositionOf(arr, k) == CHOOSE i \in 1 .. Len(arr) : arr[i] = k

\* C28: a keyframe made by add, or by set on a time no keyframe has, without
\* an easing takes the easing of the keyframe right before its position, and
\* "linear" when it is put at the front, whatever the easing of the keyframe
\* after it; an easing that is passed is the easing of the new keyframe.
C28_EasingDerivedFromPrevious ==
    [][\A tl \in Timelines, t \in Times, v \in inputs.values, e \in inputs.easings :
          (\/ Add(tl, t, v, e)
           \/ Set(tl, t, v, e) /\ searchKeyframeIndex(heap, keyframes[tl], t) < 0)
          => LET k == last'.kf
                 pos == PositionOf(keyframes'[tl], k)
             IN  /\ k \notin Allocated
                 /\ heap'[k].easing =
                       IF e # NoEasing THEN e
                       ELSE IF pos > 1 THEN heap[keyframes'[tl][pos - 1]].easing
                       ELSE "linear"]_vars

\* A keyframe was added at the front, before a keyframe with the easing
\* "hold", and has the easing "linear".
C28_Witness ==
    /\ last.op = "add"
    /\ Len(keyframes["A"]) = 2
    /\ keyframes["A"][1] = last.kf
    /\ heap[last.kf].easing = "linear"
    /\ heap[keyframes["A"][2]].easing = "hold"

\* The integer s with s <= x < s + 1, for x between -MaxSteps and 2 * MaxSteps.
FloorOf(x) ==
    CHOOSE s \in -MaxSteps - 1 .. 2 * MaxSteps + 1 :
        ~RLess(x, Num(s)) /\ RLess(x, Num(s + 1))

\* C25: a step easing of n > 0 steps without forEachStep returns
\* floor(t * n) / n for t in [0, 1], the level at which the segment that holds
\* t starts, which is what the same step easing with forEachStep = "hold"
\* returns.
C25_StepWithoutSubEasing ==
    (/\ eval.op = "easingTimeToProgress"
     /\ eval.easing.type = "step"
     /\ eval.easing.forEachStep.type = "undefined"
     /\ ~RLess(eval.time, Num(0)) /\ ~RLess(Num(1), eval.time))
    => LET n == eval.easing.steps
           t == eval.time
       IN  /\ ~eval.threw
           /\ eval.progress = Rat(FloorOf(RMul(t, Num(n))), n)
           /\ ~RLess(t, eval.progress)
           /\ RLess(t, RAdd(eval.progress, Rat(1, n)))
           /\ anyEasingTimeToProgress(StepEasing(n, NameEasing("hold")), t)
                 = [threw |-> FALSE, progress |-> eval.progress]

\* A step easing of three steps without forEachStep was evaluated at 1/2 and
\* returned 1/3.
C25_Witness ==
    /\ eval.op = "easingTimeToProgress"
    /\ eval.easing = StepEasing(3, UndefinedEasing)
    /\ eval.time = Rat(1, 2)
    /\ eval.progress = Rat(1, 3)

\* C26: in both tables of predefined easings, "hold" returns 0 for every
\* time, and "linear" returns t clamped to [0, 1]: 0 below 0, 1 above 1 and t
\* between.
C26_HoldAndLinear ==
    eval.op \in {"predefinedEasings", "predefinedEasingFunctions"}
    => /\ eval.easing.name = "hold" => eval.progress = Num(0)
       /\ eval.easing.name = "linear" =>
             eval.progress = IF RLess(eval.time, Num(0)) THEN Num(0)
                             ELSE IF RLess(Num(1), eval.time) THEN Num(1)
                             ELSE eval.time

\* C29: a step easing of n steps with the sub-easing E returns
\* s/n + E(n*t - s) * (1/n), s = floor(t * n), and fails where E fails; E may
\* be a step easing itself, and the evaluation of a nested descriptor ends.
C29_StepWithSubEasing ==
    (/\ eval.op = "easingTimeToProgress"
     /\ eval.easing.type = "step"
     /\ eval.easing.forEachStep.type # "undefined")
    => LET n == eval.easing.steps
           t == eval.time
           E == eval.easing.forEachStep
           s == FloorOf(RMul(t, Num(n)))
           inStep == RSub(RMul(Num(n), t), Num(s))
           sub == anyEasingTimeToProgress(E, inStep)
       IN  /\ eval.threw = sub.threw
           /\ ~sub.threw => eval.progress = RAdd(Rat(s, n), RMul(sub.progress, Rat(1, n)))
           /\ (E.type = "name" /\ E.name = "linear") => eval.progress = t
           /\ (E.type = "step" /\ E.forEachStep.type = "undefined")
                 => eval.progress =
                       RAdd(Rat(s, n), Rat(FloorOf(RMul(inStep, Num(E.steps))), E.steps * n))

\* A step easing of two steps, each of them a step easing of three steps, was
\* evaluated at 5/12, in the third sixth of [0, 1], and returned 1/3.
C29_Witness ==
    /\ eval.op = "easingTimeToProgress"
    /\ eval.easing = StepEasing(2, StepEasing(3, UndefinedEasing))
    /\ eval.time = Rat(5, 12)
    /\ eval.progress = Rat(1, 3)

\* C17: an easing name that is not predefined makes the easing evaluator
\* throw; a get(t) strictly between two adjacent keyframes, the later one with
\* such an easing, throws and leaves the timeline as it was.
C17_UnknownEasingRaises ==
    [][\A tl \in Timelines, t \in Times, i \in 1 .. inputs.maxKf :
          (/\ Get(tl, t)
           /\ i + 1 <= Len(keyframes[tl])
           /\ heap[keyframes[tl][i]].time < t
           /\ t < heap[keyframes[tl][i + 1]].time
           /\ ~IsPredefined(heap[keyframes[tl][i + 1]].easing))
          => /\ last'.got.threw
             /\ UNCHANGED <<initialValue, keyframes, heap>>]_vars

\* C20: get(t) is the same whatever the easing of the first keyframe of the
\* array is.
C20_FirstEasingHasNoEffect ==
    [][\A tl \in Timelines, t \in Times :
          (Get(tl, t) /\ Len(keyframes[tl]) > 0)
          => \A e \in {"hold", "linear"} :
                get([heap EXCEPT ![keyframes[tl][1]].easing = e],
                    keyframes[tl], initialValue[tl], t) = last'.got]_vars


\* x is outside [0, 1]
OutOfRange(x) == RLess(x, Num(0)) \/ RLess(Num(1), x)

\* C23: cubicBezierEasingTimeToProgress raises no error, and what it returns
\* for control points (x1, y1), (x2, y2) is what it returns for
\* (min(max(x1, 0), 1), y1), (min(max(x2, 0), 1), y2) at the same time; the
\* Y components enter the result as they are.
C23_ClampsControlPointX ==
    (eval.op = "cubicBezierEasingTimeToProgress" /\ eval.done)
    => /\ ~eval.threw
       /\ eval.progress =
          cubicBezierEasingTimeToProgress(
              eval.time,
              <<RMin(RMax(eval.cp1[1], Num(0)), Num(1)), eval.cp1[2]>>,
              <<RMin(RMax(eval.cp2[1], Num(0)), Num(1)), eval.cp2[2]>>).progress

\* A call with both X out of range has returned, and its result is above 1:
\* the Y of 2 was not clamped.
C23_Witness ==
    /\ eval.op = "cubicBezierEasingTimeToProgress"
    /\ eval.done
    /\ RLess(eval.cp1[1], Num(0))
    /\ RLess(Num(1), eval.cp2[1])
    /\ CompareToFraction(Num(1), eval.progress) < 0

\* C24: the legacy applyCubicBezier, reached through applyEasing, throws when
\* cp1.x or cp2.x is outside [0, 1]: before the loop, and without a call of
\* the interpolator.
C24_LegacyThrowsOutOfRange ==
    (eval.op = "applyCubicBezier" /\ (OutOfRange(eval.cp1[1]) \/ OutOfRange(eval.cp2[1])))
    => /\ eval.threw
       /\ eval.done
       /\ eval.iterations = 0
       /\ eval.interpolatorCalls = 0

\* The legacy call threw for cp2.x alone: cp1.x is within the range.
C24_Witness ==
    /\ eval.op = "applyCubicBezier"
    /\ eval.threw
    /\ ~OutOfRange(eval.cp1[1])
    /\ OutOfRange(eval.cp2[1])

RECURSIVE Pow2(_)
Pow2(k) == IF k = 0 THEN 1 ELSE 2 * Pow2(k - 1)

\* the iterations that halved the interval: all but the one of an exact hit
Halvings == eval.iterations - (IF eval.hit THEN 1 ELSE 0)

\* C30: in both implementations the loop starts from [0, 1] and returns
\* within 20 iterations: a loop that has not returned either returns at its
\* next test or makes one more iteration, which halves the interval; after k
\* halving iterations the width is 1 / 2^k; an iteration is made only while
\* the width is above 1e-6, and the loop returns only on an exact hit or
\* with a width of at most 1e-6.
C30_BisectionTerminates ==
    (eval.op \in {"cubicBezierEasingTimeToProgress", "applyCubicBezier"} /\ ~eval.threw)
    => /\ eval.iterations <= 20
       /\ DSub(eval.end, eval.start) = Rat(1, Pow2(Halvings))
       /\ eval.done => (eval.hit \/ ~RLess(Rat(1, 1000000), DSub(eval.end, eval.start)))
       /\ Halvings > 0 => RLess(Rat(1, 1000000), Rat(1, Pow2(Halvings - 1)))
       /\ ~eval.done
          => \/ bisect(eval).done
             \/ /\ bisect(eval).iterations = eval.iterations + 1
                /\ DSub(bisect(eval).end, bisect(eval).start)
                   = DHalf(DSub(eval.end, eval.start))

\* A loop that made 20 iterations and returned without an exact hit.
C30_Witness ==
    /\ eval.op \in {"cubicBezierEasingTimeToProgress", "applyCubicBezier"}
    /\ eval.done
    /\ ~eval.hit
    /\ eval.iterations = 20


\* Exact fractions num / den with den > 0: comparison, difference, and the
\* fraction of a rational.
FCmp(a, b) == SCmp(SMul(a.num, b.den), SMul(b.num, a.den))
FSub(a, b) ==
    [num |-> SAdd(SMul(a.num, b.den), [p |-> SMul(b.num, a.den).n, n |-> SMul(b.num, a.den).p]),
     den |-> SMul(a.den, b.den)]
FOfRat(r) == [num |-> SInt(r[1]), den |-> SInt(r[2])]

\* x(u) of the call in eval, on the clamped X of its control points
XAt(u) == parametricCubicBezier1D(eval.cp1x, eval.cp2x, u)

\* the parameter the bisection of eval stopped at: the midpoint of its interval
StoppedAt == DHalf(DAdd(eval.start, eval.end))

\* A returned call of cubicBezierEasingTimeToProgress whose control points
\* both have y equal to x.
DiagonalCall ==
    /\ eval.op = "cubicBezierEasingTimeToProgress"
    /\ eval.done
    /\ eval.cp1[2] = eval.cp1[1]
    /\ eval.cp2[2] = eval.cp2[1]

\* The progress returned is x(u) at the parameter the bisection stopped at,
\* and lies within the bisection error of the time: on an exact hit it is the
\* time; otherwise the interval is at most 1e-6 wide, x(start) <= time <=
\* x(end), the progress lies between x(start) and x(end) as well, and
\* x(end) - x(start) is at most three times the width.
ProgressTracksTime ==
    /\ FCmp(eval.progress, XAt(StoppedAt)) = 0
    /\ eval.hit => FCmp(eval.progress, FOfRat(eval.time)) = 0
    /\ ~eval.hit =>
        /\ ~RLess(Rat(1, 1000000), DSub(eval.end, eval.start))
        /\ FCmp(XAt(eval.start), FOfRat(eval.time)) <= 0
        /\ FCmp(FOfRat(eval.time), XAt(eval.end)) <= 0
        /\ FCmp(XAt(eval.start), eval.progress) <= 0
        /\ FCmp(eval.progress, XAt(eval.end)) <= 0
        /\ FCmp(FSub(XAt(eval.end), XAt(eval.start)),
                FOfRat(Rat(3 * DSub(eval.end, eval.start)[1], DSub(eval.end, eval.start)[2]))) <= 0

\* With cp1 = (0, 0) and cp2 = (1, 1) the progress at time 1/2 is within 1e-6
\* of 1/2.
HalfAtHalf ==
    (eval.cp1 = <<Num(0), Num(0)>> /\ eval.cp2 = <<Num(1), Num(1)>> /\ eval.time = Rat(1, 2))
    => /\ FCmp(FSub(eval.progress, FOfRat(Rat(1, 2))), FOfRat(Rat(1, 1000000))) <= 0
       /\ FCmp(FSub(FOfRat(Rat(1, 2)), eval.progress), FOfRat(Rat(1, 1000000))) <= 0

\* C31 as stated: for every returned call whose control points have y equal
\* to x, the progress is x(u) at the stopping parameter and within the
\* bisection error of the time; for (0, 0), (1, 1) at 1/2 it is within 1e-6
\* of 1/2.
C31_DiagonalTracksTime ==
    DiagonalCall => (ProgressTracksTime /\ HalfAtHalf)

\* C31, amended: the same, for control points whose x (and so y) is within
\* [0, 1] and a time within [0, 1].
C31_DiagonalInRangeTracksTime ==
    (/\ DiagonalCall
     /\ ~OutOfRange(eval.cp1[1]) /\ ~OutOfRange(eval.cp2[1])
     /\ ~OutOfRange(eval.time))
    => (ProgressTracksTime /\ HalfAtHalf)

\* A call on the diagonal within the range has returned after 20 iterations,
\* without an exact hit.
C31_Witness ==
    /\ DiagonalCall
    /\ ~OutOfRange(eval.cp1[1]) /\ ~OutOfRange(eval.cp2[1])
    /\ ~OutOfRange(eval.time)
    /\ ~eval.hit
    /\ eval.iterations = 20


\* The call in eval was made on two vectors of equal length, or on two records.
ComponentCall ==
    \/ /\ eval.op = "vectorInterpolator"
       /\ Len(Deref(objs, eval.from)) = Len(Deref(objs, eval.to))
    \/ eval.op = "structInterpolator"

\* C32: what vectorInterpolator (on vectors of equal length) and
\* structInterpolator (on records with the same fields) return has, in every
\* component, the value from[i] * (1 - p) + to[i] * p, for every progress p.
C32_ComponentwiseScalarBlend ==
    ComponentCall
    => \A i \in DOMAIN Deref(objs, eval.from) :
          Deref(objs, eval.ret)[i]
          = scalarInterpolator(Deref(objs, eval.from)[i], Deref(objs, eval.to)[i], eval.p)


\* A call of setTime or delete of the legacy Timeline was made with a
\* keyframe object that is no element of the timeline's array.
ForeignCall(tl) ==
    /\ last'.op \in {"setTime", "delete"}
    /\ last'.kf \notin Elems(keyframes[tl])

\* C33: the legacy setTime(kf, t) and delete(kf), called with a keyframe object
\* that is no element of the timeline, throw and leave the array and its
\* keyframes as they were, whatever the time of kf.
C33_ForeignKeyframeThrows ==
    [][\A tl \in Timelines :
          ForeignCall(tl)
          => /\ last'.threw
             /\ keyframes' = keyframes
             /\ heap' = heap]_vars


\* C34: a time change keeps the membership of every keyframes array: the
\* array after it is a rearrangement of the array before it and holds each
\* keyframe once, also where add has made keyframes of equal time.
C34_TimeChangeKeepsMembership ==
    [][last'.op = "setTime"
       => \A tl \in Timelines :
             /\ Permuted(keyframes[tl], keyframes'[tl])
             /\ \A kf \in Elems(keyframes'[tl]) : Count(keyframes'[tl], kf) = 1]_vars


\* C35: from a state where every array is strictly ascending by time, every
\* call that is neither an add at an occupied time nor a time change to the
\* time of another keyframe of the array leads to a state where every array
\* is strictly ascending and holds no keyframe twice; this includes the time
\* changes made on keyframes that are no longer in their array.  The
\* timeline starts empty, so every state reached by such calls is strictly
\* ascending.
C35_StrictlyAscendingWithoutCollisions ==
    [][((\A tl \in Timelines : StrictAsc(heap, keyframes[tl])) /\ ~HitsOccupied)
       => \A tl \in Timelines :
             /\ StrictAsc(heap', keyframes'[tl])
             /\ \A kf \in Elems(keyframes'[tl]) : Count(keyframes'[tl], kf) = 1]_vars

\* A time change was made on a keyframe that is not in its array, and the
\* array, with two keyframes, is strictly ascending.
C35_Witness ==
    /\ last.op = "setTime"
    /\ ~Attached(last.kf)
    /\ Len(keyframes["A"]) = 2
    /\ StrictAsc(heap, keyframes["A"])


\* C36: when the call made last is a get(t) on an ascending array, it
\* called the easing evaluator exactly when it reached its interpolation
\* branch, and then before.time < t < after.time, the divisor
\* after.time - before.time is positive and the normalized time is strictly
\* between 0 and 1; equal times in the array do not matter.
C36_InterpolationBrackets ==
    \A tl \in Timelines :
        (last.op = "get" /\ Asc(heap, keyframes[tl]))
        => LET b == getBracket(heap, keyframes[tl], last.time)
           IN  /\ b.reached <=> last.got.easingCalls = 1
               /\ b.reached
                  => /\ heap[b.before].time < last.time
                     /\ last.time < heap[b.after].time
                     /\ b.divisor > 0
                     /\ RLess(Num(0), b.progress)
                     /\ RLess(b.progress, Num(1))

\* get(1) interpolated between a keyframe at 0 and a keyframe at 4, in an
\* array where two keyframes have the time 0.
C36_Witness ==
    /\ last.op = "get"
    /\ last.time = 1
    /\ last.got.easingCalls = 1
    /\ Len(keyframes["A"]) = 3
    /\ heap[keyframes["A"][1]].time = 0
    /\ heap[keyframes["A"][2]].time = 0
    /\ heap[keyframes["A"][3]].time = 4


\* This step is a call of set, add, remove or loadFromSerializable on the
\* timeline tl, or a time change of a keyframe that belongs to tl.
CallOn(tl) ==
    \/ \E t \in Times, v \in inputs.values, e \in inputs.easings : Add(tl, t, v, e)
    \/ \E t \in Times, v \in inputs.values, e \in inputs.easings : Set(tl, t, v, e)
    \/ \E k \in Allocated : Remove(tl, <<k>>)
    \/ \E kf \in Allocated, t \in Times : heap[kf].timeline = tl /\ SetTime(kf, t)
    \/ snap.exists /\ LoadFromSerializable(tl)

\* The timeline tl is after the step what it was before: the same array of
\* the same keyframe objects, each with the time, value, easing and flags it
\* had, and the same initialValue.
Untouched(tl) ==
    /\ keyframes'[tl] = keyframes[tl]
    /\ initialValue'[tl] = initialValue[tl]
    /\ \A k \in Elems(keyframes[tl]) : heap'[k] = heap[k]

\* C37: the keyframes that loadFromSerializable makes are new objects of the
\* loading timeline; with the serializable of A loaded into B, every call on
\* one of the two timelines (set, add, remove, a time change of one of its
\* keyframes, the load itself) leaves the other as it was.
C37_LoadedTimelineIsSeparate ==
    [][/\ \A tl \in PairTimelines :
             CallOn(tl) => \A other \in PairTimelines \ {tl} : Untouched(other)
       /\ last'.op = "loadFromSerializable"
          => \A k \in Elems(keyframes'["B"]) :
                /\ k > Len(heap)
                /\ heap'[k].timeline = "B"
                /\ Count(keyframes'["B"], k) = 1]_vars

\* After the load, B holds the loaded keyframe and one more, a time change
\* has moved the loaded keyframe behind the other, and A still holds its
\* keyframe.
C37_Witness ==
    /\ snap.loaded
    /\ last.op = "setTime"
    /\ heap[last.kf].timeline = "B"
    /\ Len(keyframes["B"]) = 2
    /\ keyframes["B"][2] = last.kf
    /\ keyframes["B"][1] > last.kf
    /\ Len(keyframes["A"]) = 1


\* C38: the legacy applyPowerEasing between two numbers, with the scalar
\* linear interpolator and a whole degree >= 1, returns from at progress 0
\* and to at progress 1 in each of the modes in, out and in-out, and in the
\* mode in-out a value between from and to for every progress in [0, 1].
C38_PowerEasingEndpoints ==
    eval.op = "applyPowerEasing"
    => /\ ~eval.threw
       /\ eval.x = Num(0) => eval.ret = eval.from
       /\ eval.x = Num(1) => eval.ret = eval.to
       /\ (eval.mode = "in-out" /\ ~OutOfRange(eval.x))
          => /\ ~RLess(eval.ret, RMin(eval.from, eval.to))
             /\ ~RLess(RMax(eval.from, eval.to), eval.ret)

====
